---- MODULE Spec2Model ----
(***************************************************************************)
(* A model of script.py, the Emby media cleanup script: the watch-state    *)
(* resolution of EmbyClient.get_unwatched_items, the Sonarr/Radarr         *)
(* correlation and deletion of process_unwatched_media, and the scheduler  *)
(* loop of run_scheduled / main.                                           *)
(*                                                                         *)
(* Timestamps are ISO-8601 strings in the program and are compared as      *)
(* strings; the model keeps each timestamp as an integer number of seconds *)
(* whose order is the order of the strings.  NoDate is an absent (None)    *)
(* timestamp.                                                              *)
(***************************************************************************)
EXTENDS Integers, Sequences, FiniteSets, TLC

(* ------------------------------------------------------------------ *)
(* Program constants and bounds                                          *)
(* ------------------------------------------------------------------ *)

\* args.days default (--days)
DefaultDays == 90

\* --min-age-days: default=90
DefaultMinAgeDays == 90

\* datetime.timedelta(days=1) in seconds
SecondsPerDay == 86400

\* datetime.timedelta(hours=1) in seconds
SecondsPerHour == 3600

\* for _ in range(60) of the scheduler's idle wait
SleepIterations == 60

\* played_percentage > 75
PlayedPercentageThreshold == 75

\* an absent timestamp (None)
NoDate == 0

\* the wall clock when the process starts (seconds)
StartClock == 8000000

\* the longest time one gateway-heavy phase of a run may take (seconds)
MaxElapsed == 1

\* how many gateway calls of one resolution may fail at the transport layer
MaxFailures == 1

\* seconds of scheduler time explored after the first interval has elapsed
MaxOvertime == 130

Range(s) == { s[i] : i \in 1..Len(s) }

(* ------------------------------------------------------------------ *)
(* State                                                                 *)
(* ------------------------------------------------------------------ *)

VARIABLES
    args,                   \* the parsed command line (argparse namespace)
    emby_users,             \* media server: users
    emby_libraries,         \* media server: virtual folders
    emby_items,             \* media server: library ItemId -> items
    emby_user_data,         \* media server: <<user id, item id>> -> UserData
    emby_episodes,          \* media server: series id -> episodes
    radarr_movies,          \* Radarr's catalog (remote)
    sonarr_series,          \* Sonarr's catalog (remote)
    movies_cache,           \* RadarrClient._movies_cache
    series_cache,           \* SonarrClient._series_cache
    clock,                  \* datetime.datetime.now()
    pc,                     \* position of the process
    ret,                    \* who called process_unwatched_media
    cutoff_date,            \* get_unwatched_items: cutoff_date
    failed,                 \* the gateway calls of this run that failed
    watched_by_whitelisted, \* get_unwatched_items: watched_by_whitelisted
    unwatched_items,        \* get_unwatched_items: its return value
    queried,                \* the libraries whose items get_unwatched_items asked for
    movies,                 \* process_unwatched_media: movies
    shows,                  \* process_unwatched_media: shows
    report_cutoff_date,     \* process_unwatched_media: its own cutoff_date
    list_requests,          \* list requests this run has sent to each catalog
    idx,                    \* position of the deletion loop
    deleted,                \* deleted_{movie,show}_{size,count}
    delete_calls,           \* delete requests issued to the catalogs
    prompts,                \* operator prompts shown, with their answers
    last_run,               \* run_scheduled: last_run
    stop_event,             \* run_scheduled: stop_event["stop"]
    sleep_i,                \* run_scheduled: the for _ in range(60) counter
    tick_now,               \* run_scheduled: now, sampled at the tick
    signal_at,              \* where the process was when SIGTERM arrived
    runs,                   \* the runs executed: how each was started, and when
    raised,                 \* the runs (by number) that ended in the except handler
    summaries,              \* the runs (by number) that printed the deletion summary
    exit_code               \* the process's exit code, once it has exited

server == <<emby_users, emby_libraries, emby_items, emby_user_data, emby_episodes,
            radarr_movies, sonarr_series>>

caches == <<movies_cache, series_cache>>

resolution == <<cutoff_date, failed, watched_by_whitelisted, unwatched_items, queried>>

report == <<movies, shows, report_cutoff_date, list_requests>>

deletion == <<idx, deleted, delete_calls, prompts>>

scheduler == <<last_run, stop_event, sleep_i, tick_now, signal_at>>

outcome == <<raised, summaries>>

vars == <<args, server, caches, clock, pc, ret, resolution, report, deletion,
          scheduler, runs, exit_code, outcome>>

(* ------------------------------------------------------------------ *)
(* EmbyClient                                                            *)
(* ------------------------------------------------------------------ *)

\* str.lower() on the user and library names of the model
Lower(name) ==
    CASE name = "Alice" -> "alice"
      [] name = "BOB" -> "bob"
      [] name = "Movies" -> "movies"
      [] name = "Shows" -> "shows"
      [] OTHER -> name

\* a gateway call, as the transport layer sees it
Call(kind, a, b) == [kind |-> kind, a |-> a, b |-> b]

\* get_users: [] on a transport failure
get_users(fail) ==
    IF Call("users", "", "") \in fail THEN <<>> ELSE emby_users

\* get_libraries: [] on a transport failure
get_libraries(fail) ==
    IF Call("libraries", "", "") \in fail THEN <<>> ELSE emby_libraries

\* get_items_by_library: the library's movies and series, with their
\* DateCreated and DateLastPlayed fields
get_items_by_library(fail, library_id) ==
    IF Call("items", library_id, "") \in fail THEN <<>> ELSE emby_items[library_id]

\* updated_get_items of process_unwatched_media: the same request with the same
\* parameters and fields, and the same handling of a transport failure
updated_get_items(fail, library_id) ==
    IF Call("items", library_id, "") \in fail THEN <<>> ELSE emby_items[library_id]

\* client.get_items_by_library as the global pass finds it: replaced by
\* updated_get_items unless --include-recent is given
ItemsOfLibrary(fail, library_id) ==
    IF ~args.include_recent
    THEN updated_get_items(fail, library_id)
    ELSE get_items_by_library(fail, library_id)

\* get_user_items_by_library: the library's items with this user's UserData
get_user_items_by_library(fail, user_id, library_id) ==
    IF Call("user_items", user_id, library_id) \in fail
    THEN <<>>
    ELSE [i \in 1..Len(emby_items[library_id]) |->
            [Id |-> emby_items[library_id][i].Id,
             Type |-> emby_items[library_id][i].Type,
             UserData |-> emby_user_data[<<user_id, emby_items[library_id][i].Id>>]]]

\* get_episodes_by_series; the lambda of --ignore-episodes returns []
get_episodes_by_series(fail, series_id) ==
    IF args.ignore_episodes \/ Call("episodes", series_id, "") \in fail
    THEN <<>>
    ELSE emby_episodes[series_id]

\* get_user_episodes_by_series; the lambda of --ignore-episodes returns []
get_user_episodes_by_series(fail, user_id, series_id) ==
    IF args.ignore_episodes \/ Call("user_episodes", user_id, series_id) \in fail
    THEN <<>>
    ELSE [i \in 1..Len(emby_episodes[series_id]) |->
            [Id |-> emby_episodes[series_id][i].Id,
             UserData |-> emby_user_data[<<user_id, emby_episodes[series_id][i].Id>>]]]

\* cutoff_date = now - timedelta(days=days)
CutoffDate(now, days) == now - days * SecondsPerDay

\* the ids of the users whose lower-cased name is a lower-cased whitelist name
WhitelistedUserIds(users, whitelisted_users) ==
    { u.Id : u \in { x \in Range(users) :
                       Lower(x.Name) \in { Lower(n) : n \in whitelisted_users } } }

\* the library_names filter matching whatever the case of the letters
FilteredLibraries_IgnoringCase(libraries, library_names) ==
    IF library_names # {}
    THEN SelectSeq(libraries, LAMBDA l :
            l.Name # "" /\ Lower(l.Name) \in { Lower(n) : n \in library_names })
    ELSE libraries

\* the libraries left by the library_names filter (the empty filter keeps all)
FilteredLibraries(libraries, library_names) ==
    IF library_names # {}
    THEN SelectSeq(libraries, LAMBDA l : l.Name # "" /\ l.Name \in library_names)
    ELSE libraries

\* the watched predicate without its played-percentage test
IsWatched_NoPercentage(user_data, cutoff) ==
    \/ (user_data.LastPlayedDate # NoDate /\ user_data.LastPlayedDate > cutoff)
    \/ user_data.Played

\* the watched predicate of the whitelisted-watch pass
IsWatched(user_data, cutoff) ==
    \/ (user_data.LastPlayedDate # NoDate /\ user_data.LastPlayedDate > cutoff)
    \/ user_data.Played
    \/ user_data.PlayedPercentage > PlayedPercentageThreshold

\* the whitelisted-watch pass: an item is added when its own record is watched;
\* a series' episodes are fetched, and the series id added again, only then
WatchedByWhitelisted(fail, libraries, user_ids, cutoff) ==
    UNION { UNION { UNION {
        IF IsWatched(item.UserData, cutoff)
        THEN {item.Id} \cup
             (IF item.Type = "Series" /\
                 \E ep \in Range(get_user_episodes_by_series(fail, user_id, item.Id)) :
                     IsWatched(ep.UserData, cutoff)
              THEN {item.Id}
              ELSE {})
        ELSE {}
        : item \in Range(get_user_items_by_library(fail, user_id, library.ItemId)) }
        : user_id \in user_ids }
        : library \in { l \in Range(libraries) : l.ItemId # "" } }

\* the global pass without its look at the episodes
RecentlyWatched_EpisodesNotConsulted(fail, series_id, cutoff) == FALSE

\* any episode of the series played after the cutoff, by anyone
RecentlyWatched(fail, series_id, cutoff) ==
    \E ep \in Range(get_episodes_by_series(fail, series_id)) :
        ep.DateLastPlayed # NoDate /\ ep.DateLastPlayed > cutoff

\* the global pass taking an item created at the cutoff for recently added
IsUnwatched_CreatedAtCutoffIsRecent(fail, item, watched, cutoff) ==
    /\ item.Id \notin watched
    /\ ~(item.Type = "Series" /\ RecentlyWatched(fail, item.Id, cutoff))
    /\ ~(item.DateCreated # NoDate /\ item.DateCreated >= cutoff)
    /\ (item.DateLastPlayed = NoDate \/ item.DateLastPlayed < cutoff)

\* the global pass taking an item last played at the cutoff for unwatched
IsUnwatched_PlayedAtCutoffIsStale(fail, item, watched, cutoff) ==
    /\ item.Id \notin watched
    /\ ~(item.Type = "Series" /\ RecentlyWatched(fail, item.Id, cutoff))
    /\ ~(item.DateCreated # NoDate /\ item.DateCreated > cutoff)
    /\ (item.DateLastPlayed = NoDate \/ item.DateLastPlayed <= cutoff)

\* the global pass's decision on one item
IsUnwatched(fail, item, watched, cutoff) ==
    /\ item.Id \notin watched
    /\ ~(item.Type = "Series" /\ RecentlyWatched(fail, item.Id, cutoff))
    /\ ~(item.DateCreated # NoDate /\ item.DateCreated > cutoff)
    /\ (item.DateLastPlayed = NoDate \/ item.DateLastPlayed < cutoff)

\* item['LibraryName'] = library_name
WithLibraryName(item, library_name) ==
    [Id |-> item.Id, Name |-> item.Name, Type |-> item.Type,
     DateCreated |-> item.DateCreated, DateLastPlayed |-> item.DateLastPlayed,
     LibraryName |-> library_name]

\* the unwatched items of one library, in the order the server lists them
UnwatchedOfLibrary(fail, library, watched, cutoff) ==
    IF library.ItemId = ""
    THEN <<>>
    ELSE LET kept == SelectSeq(ItemsOfLibrary(fail, library.ItemId),
                               LAMBDA item : IsUnwatched(fail, item, watched, cutoff))
         IN  [i \in 1..Len(kept) |-> WithLibraryName(kept[i], library.Name)]

RECURSIVE UnwatchedOfLibraries(_, _, _, _)
\* the global pass giving up at the first library whose listing fails
UnwatchedOfLibraries_StopAtFailure(fail, libraries, watched, cutoff) ==
    IF libraries = <<>> \/ Call("items", Head(libraries).ItemId, "") \in fail
    THEN <<>>
    ELSE UnwatchedOfLibrary(fail, Head(libraries), watched, cutoff)
         \o UnwatchedOfLibraries(fail, Tail(libraries), watched, cutoff)

\* the global pass over the active libraries, in order
UnwatchedOfLibraries(fail, libraries, watched, cutoff) ==
    IF libraries = <<>>
    THEN <<>>
    ELSE UnwatchedOfLibrary(fail, Head(libraries), watched, cutoff)
         \o UnwatchedOfLibraries(fail, Tail(libraries), watched, cutoff)

\* the libraries get_unwatched_items works on
ActiveLibraries(fail) ==
    FilteredLibraries(get_libraries(fail), args.libraries)

\* the libraries the two passes ask the server about ("for library in libraries")
QueriedLibraries(fail) ==
    { l.ItemId : l \in { x \in Range(ActiveLibraries(fail)) : x.ItemId # "" } }

\* the exclusion set get_unwatched_items builds
ResolveWatched(fail, cutoff) ==
    WatchedByWhitelisted(fail, ActiveLibraries(fail),
                         WhitelistedUserIds(get_users(fail), args.whitelist), cutoff)

\* the list get_unwatched_items returns
ResolveUnwatched(fail, cutoff) ==
    UnwatchedOfLibraries(fail, ActiveLibraries(fail), ResolveWatched(fail, cutoff), cutoff)

(* ------------------------------------------------------------------ *)
(* SonarrClient / RadarrClient                                          *)
(* ------------------------------------------------------------------ *)

\* item_id = None: no delete handle
NoId == 0

\* _movies_cache = None / _series_cache = None
NoCache == [loaded |-> FALSE, entries |-> <<>>]

\* find_*_by_title returning None
NoEntry == [id |-> NoId, title |-> <<>>, sizeOnDisk |-> 0]

\* str.lower() on one character of a title
LowerChar(c) ==
    CASE c = "A" -> "a"
      [] c = "B" -> "b"
      [] c = "C" -> "c"
      [] c = "D" -> "d"
      [] OTHER -> c

\* str.lower() on a title (a sequence of characters)
LowerTitle(t) == [i \in 1..Len(t) |-> LowerChar(t[i])]

\* needle in hay (Python's substring test)
Contains(hay, needle) ==
    \E k \in 0..(Len(hay) - Len(needle)) : SubSeq(hay, k + 1, k + Len(needle)) = needle

\* the exact-match test of find_*_by_title
TitleEquals(entry, title) == LowerTitle(entry.title) = LowerTitle(title)

\* the fuzzy test in one direction only: the catalog title contains the name
TitleFuzzy_TitleContainsNameOnly(entry, title) ==
    Contains(LowerTitle(entry.title), LowerTitle(title))

\* the fuzzy test of find_*_by_title
TitleFuzzy(entry, title) ==
    \/ Contains(LowerTitle(entry.title), LowerTitle(title))
    \/ Contains(LowerTitle(title), LowerTitle(entry.title))

\* the entry at the least of the given positions of the list
FirstMatch(all, positions) ==
    all[CHOOSE i \in positions : \A j \in positions : i <= j]

\* one pass over the listing that returns the first entry matching either way
FindByTitle_FirstHit(all, title) ==
    LET hits == { i \in 1..Len(all) : TitleEquals(all[i], title) \/ TitleFuzzy(all[i], title) }
    IN  IF hits # {} THEN FirstMatch(all, hits) ELSE NoEntry

\* find_movie_by_title / find_series_by_title over the listing get_all_* returned
FindByTitle(all, title) ==
    LET exact == { i \in 1..Len(all) : TitleEquals(all[i], title) }
        fuzzy == { i \in 1..Len(all) : TitleFuzzy(all[i], title) }
    IN  IF exact # {} THEN FirstMatch(all, exact)
        ELSE IF fuzzy # {} THEN FirstMatch(all, fuzzy)
        ELSE NoEntry

\* no list request sent to either catalog
NoRequests == [radarr |-> 0, sonarr |-> 0]

\* get_all_movies / get_all_series: the cache when it is held, else the listing
\* fetched now ([] when the request fails)
GetAll(cache, remote, request_fails) ==
    IF cache.loaded THEN cache.entries
    ELSE IF request_fails THEN <<>> ELSE remote

\* the cache get_all_* leaves behind
CacheAfterGetAll(cache, remote, request_fails) ==
    IF cache.loaded \/ request_fails THEN cache
    ELSE [loaded |-> TRUE, entries |-> remote]

\* delete_movie / delete_series dropping the entry whatever the call's outcome
CacheAfterDelete_WhateverTheOutcome(cache, id, success) ==
    IF cache.loaded
    THEN [loaded |-> TRUE, entries |-> SelectSeq(cache.entries, LAMBDA e : e.id # id)]
    ELSE cache

\* delete_movie / delete_series leaving the cache as it was
CacheAfterDelete_Unchanged(cache, id, success) == cache

\* the cache delete_movie / delete_series leaves behind
CacheAfterDelete(cache, id, success) ==
    IF success /\ cache.loaded
    THEN [loaded |-> TRUE, entries |-> SelectSeq(cache.entries, LAMBDA e : e.id # id)]
    ELSE cache

(* ------------------------------------------------------------------ *)
(* process_unwatched_media: report                                       *)
(* ------------------------------------------------------------------ *)

\* the series of the unwatched list with an episode created after the cutoff
\* that process_unwatched_media computes for itself
RecentlyUpdatedSeriesIds(fail, items, cutoff) ==
    IF args.ignore_recent_episodes
    THEN {}
    ELSE { item.Id : item \in
             { x \in Range(items) :
                 /\ x.Type = "Series"
                 /\ \E ep \in Range(get_episodes_by_series(fail, x.Id)) :
                        ep.DateCreated # NoDate /\ ep.DateCreated > cutoff } }

\* movie_data / show_data; EmbyId is kept to tell the items apart
ItemData(item, found) ==
    [Name |-> item.Name, Library |-> item.LibraryName, Size |-> found.sizeOnDisk,
     Id |-> found.id, EmbyId |-> item.Id]

\* one pass of the loop over unwatched_items: the catalog lookup and the append.
\* acc holds movies, shows, both caches, how many more list requests fail, and
\* how many list requests have been sent
CorrelateItem(acc, item, skip_ids) ==
    IF item.Type = "Series" /\ item.Id \in skip_ids
    THEN acc
    ELSE IF item.Type = "Movie"
    THEN LET fails == acc.radarr_fails > 0
             asked == args.radarr /\ ~acc.movies_cache.loaded
             found == IF args.radarr
                      THEN FindByTitle(GetAll(acc.movies_cache, radarr_movies, fails),
                                       item.Name)
                      ELSE NoEntry
         IN  [acc EXCEPT !.movies = Append(@, ItemData(item, found)),
                         !.movies_cache =
                             IF args.radarr
                             THEN CacheAfterGetAll(@, radarr_movies, fails)
                             ELSE @,
                         !.radarr_fails = IF asked /\ fails THEN @ - 1 ELSE @,
                         !.radarr_requests = IF asked THEN @ + 1 ELSE @]
    ELSE LET fails == acc.sonarr_fails > 0
             asked == args.sonarr /\ ~acc.series_cache.loaded
             found == IF args.sonarr
                      THEN FindByTitle(GetAll(acc.series_cache, sonarr_series, fails),
                                       item.Name)
                      ELSE NoEntry
         IN  [acc EXCEPT !.shows = Append(@, ItemData(item, found)),
                         !.series_cache =
                             IF args.sonarr
                             THEN CacheAfterGetAll(@, sonarr_series, fails)
                             ELSE @,
                         !.sonarr_fails = IF asked /\ fails THEN @ - 1 ELSE @,
                         !.sonarr_requests = IF asked THEN @ + 1 ELSE @]

RECURSIVE CorrelateAll(_, _, _)
\* the loop over unwatched_items
CorrelateAll(acc, items, skip_ids) ==
    IF items = <<>>
    THEN acc
    ELSE CorrelateAll(CorrelateItem(acc, Head(items), skip_ids), Tail(items), skip_ids)

RECURSIVE InsertBySize(_, _)
\* x placed after every entry at least as large: a stable descending order
InsertBySize(sorted, x) ==
    IF sorted = <<>> THEN <<x>>
    ELSE IF Head(sorted).Size >= x.Size
         THEN <<Head(sorted)>> \o InsertBySize(Tail(sorted), x)
         ELSE <<x>> \o sorted

RECURSIVE SortBySize(_)
\* list.sort(key=lambda x: x['Size'], reverse=True)
SortBySize(list) ==
    IF list = <<>> THEN <<>>
    ELSE InsertBySize(SortBySize(SubSeq(list, 1, Len(list) - 1)), list[Len(list)])

\* movies / shows as the report lists them
Listed(list) == IF args.sort_by_size THEN SortBySize(list) ELSE list

(* ------------------------------------------------------------------ *)
(* process_unwatched_media: deletion                                     *)
(* ------------------------------------------------------------------ *)

NoTally == [movie_size |-> 0, movie_count |-> 0, show_size |-> 0, show_count |-> 0]

\* the answers prompt_for_deletion accepts (anything else asks again)
Answers == {"y", "n", "q"}

\* whether the loop reaches prompt_for_deletion for this entry
Prompted(entry) ==
    /\ entry.Id # NoId
    /\ args.delete_mode = "interactive"
    /\ args.interval = 0

\* the deletion loop without its test for a missing delete handle
Decision_IgnoringHandle(entry, answer) ==
    IF args.delete_mode = "all" THEN "delete"
    ELSE IF args.delete_mode = "interactive"
         THEN IF args.interval # 0 THEN "skip"
              ELSE IF answer = "y" THEN "delete"
              ELSE IF answer = "q" THEN "quit"
              ELSE "declined"
         ELSE "declined"

\* mode 'all' asking the operator like the interactive mode does
Decision_AllAsksFirst(entry, answer) ==
    IF entry.Id = NoId THEN "skip"
    ELSE IF args.delete_mode = "interactive" /\ args.interval # 0 THEN "skip"
    ELSE IF args.delete_mode \in {"all", "interactive"}
         THEN IF answer = "y" THEN "delete"
              ELSE IF answer = "q" THEN "quit"
              ELSE "declined"
         ELSE "declined"

\* prompt_for_deletion taking 'q' for a no
Decision_QuitDeclines(entry, answer) ==
    IF entry.Id = NoId THEN "skip"
    ELSE IF args.delete_mode = "all" THEN "delete"
    ELSE IF args.delete_mode = "interactive"
         THEN IF args.interval # 0 THEN "skip"
              ELSE IF answer = "y" THEN "delete"
              ELSE "declined"
         ELSE "declined"

\* what the deletion loop does with one entry, given the operator's answer
Decision(entry, answer) ==
    IF entry.Id = NoId THEN "skip"
    ELSE IF args.delete_mode = "all" THEN "delete"
    ELSE IF args.delete_mode = "interactive"
         THEN IF args.interval # 0 THEN "skip"
              ELSE IF answer = "y" THEN "delete"
              ELSE IF answer = "q" THEN "quit"
              ELSE "declined"
         ELSE "declined"

\* the deletion section entered whatever the mode
DeletionRequested_Always(delete_mode) == TRUE

\* "if args.delete_mode != 'none'": whether the deletion section is entered
DeletionRequested(delete_mode) == delete_mode # "none"

\* deleted_movie_size += movie['Size']; deleted_movie_count += 1
TallyMovie(tally, entry) ==
    [tally EXCEPT !.movie_size = @ + entry.Size, !.movie_count = @ + 1]

\* deleted_show_size += show['Size']; deleted_show_count += 1
TallyShow(tally, entry) ==
    [tally EXCEPT !.show_size = @ + entry.Size, !.show_count = @ + 1]

\* whether a confirmed entry is counted: always in a dry run, else on success
Counted(success) == args.dry_run \/ success

\* a delete request goes out for every confirmed entry, dry run or not
IssuesDelete_IgnoringDryRun(decision) == decision = "delete"

\* whether delete_movie / delete_series is called: for a confirmed entry, unless
\* this is a dry run
IssuesDelete(decision) == decision = "delete" /\ ~args.dry_run

\* the loop trying the same entry again after a delete request that failed
NextIndex_RetryOnFailure(i, list, decision, success) ==
    IF IssuesDelete(decision) /\ ~success THEN i ELSE i + 1

\* the loop gives up after a delete request that failed
NextIndex_StopOnFailure(i, list, decision, success) ==
    IF IssuesDelete(decision) /\ ~success THEN Len(list) + 1 ELSE i + 1

\* the position the for loop moves to after an entry, whatever happened to it
NextIndex(i, list, decision, success) == i + 1

(* ------------------------------------------------------------------ *)
(* Actions                                                               *)
(* ------------------------------------------------------------------ *)

\* the gateway calls one resolution can issue against this server
ResolveCalls ==
    LET user_ids == WhitelistedUserIds(emby_users, args.whitelist)
        libs == { l.ItemId : l \in Range(FilteredLibraries(emby_libraries, args.libraries)) }
        series == { it.Id : it \in { x \in UNION { Range(emby_items[l]) : l \in libs } :
                                        x.Type = "Series" } }
    IN  {Call("users", "", ""), Call("libraries", "", "")}
        \cup { Call("items", l, "") : l \in libs }
        \cup { Call("user_items", u, l) : u \in user_ids, l \in libs }
        \cup { Call("episodes", s, "") : s \in series }
        \cup { Call("user_episodes", u, s) : u \in user_ids, s \in series }

\* the transport failures one resolution may meet
FailurePatterns == { f \in SUBSET ResolveCalls : Cardinality(f) <= MaxFailures }

\* the transport failures of the recently-added-episodes check
RecentCheckFailures ==
    { f \in SUBSET { Call("recent_episodes", it.Id, "") :
                        it \in { x \in Range(unwatched_items) : x.Type = "Series" } } :
        Cardinality(f) <= MaxFailures }

\* the episode listing calls among the failures, as get_episodes_by_series sees them
AsEpisodeCalls(fail) == { Call("episodes", c.a, "") : c \in fail }

\* a call of process_unwatched_media begins
StartRun(how) ==
    /\ pc' = "resolve"
    /\ ret' = how
    /\ runs' = Append(runs, [how |-> how, at |-> clock])

\* the delete mode left as the command line gave it
ScheduledDeleteMode_Kept(delete_mode) == delete_mode

\* main: interactive deletion is turned into 'none' for scheduled execution
ScheduledDeleteMode(delete_mode) ==
    IF delete_mode = "interactive" THEN "none" ELSE delete_mode

\* last_run always taken from the clock when the run is over
LastRunAfter_EndOfRun(how, now_at_tick, now_after) == now_after

\* run_scheduled: last_run = datetime.datetime.now() after the run at start,
\* last_run = now (sampled at the tick, before the run) after a scheduled run
LastRunAfter(how, now_at_tick, now_after) ==
    IF how = "at_start" THEN now_after ELSE now_at_tick

\* a run that ended in the except handler takes the scheduler down with it
AfterRun_FailureLeavesLoop(how, in_handler) ==
    IF in_handler THEN "exited"
    ELSE IF how = "at_start" THEN "loop" ELSE "wait"

\* run_scheduled after process_unwatched_media has returned, from its try block
\* or from its except handler: the run at start goes on to the while loop, a
\* scheduled run to the idle wait
AfterRun(how, in_handler) == IF how = "at_start" THEN "loop" ELSE "wait"

\* the idle wait without its look at the stop flag
WaitIsOver_NoStopCheck(stop, i) == i >= SleepIterations

\* run_scheduled: the idle wait ends after 60 sleeps, or at the check that
\* finds the stop flag set
WaitIsOver(stop, i) == stop \/ i >= SleepIterations

\* main: the interval check, the downgrade of interactive deletion, and the
\* start of run_scheduled (stop_event, the signal handlers, last_run = None)
Main ==
    /\ pc = "main"
    /\ IF args.interval # 0
       THEN IF args.interval <= 0
            THEN /\ pc' = "exited"
                 /\ exit_code' = "0"
                 /\ UNCHANGED <<args, ret, runs, scheduler>>
            ELSE /\ args' = [args EXCEPT !.delete_mode = ScheduledDeleteMode(@)]
                 /\ stop_event' = FALSE
                 /\ last_run' = NoDate
                 /\ pc' = "start"
                 /\ UNCHANGED <<sleep_i, tick_now, signal_at, exit_code, ret, runs>>
       ELSE /\ StartRun("single")
            /\ UNCHANGED <<args, scheduler, exit_code>>
    /\ UNCHANGED <<server, caches, clock, resolution, report, deletion, outcome>>

\* process_unwatched_media up to the return of get_unwatched_items: the clients
\* are built, and the resolution runs against the media server
GetUnwatchedItems ==
    /\ pc = "resolve"
    /\ \E fail \in FailurePatterns, elapsed \in 0..MaxElapsed :
        /\ cutoff_date' = CutoffDate(clock, args.days)
        /\ failed' = fail
        /\ watched_by_whitelisted' = ResolveWatched(fail, CutoffDate(clock, args.days))
        /\ unwatched_items' = ResolveUnwatched(fail, CutoffDate(clock, args.days))
        /\ queried' = QueriedLibraries(fail)
        /\ clock' = clock + elapsed
    /\ movies_cache' = NoCache
    /\ series_cache' = NoCache
    /\ pc' = "correlate"
    /\ UNCHANGED <<args, server, ret, report, deletion, scheduler, runs, exit_code,
                   outcome>>

\* process_unwatched_media from the recently-added-episodes check to the report
Correlate ==
    /\ pc = "correlate"
    /\ \E fail \in RecentCheckFailures,
          radarr_fails \in 0..(IF args.radarr THEN MaxFailures ELSE 0),
          sonarr_fails \in 0..(IF args.sonarr THEN MaxFailures ELSE 0) :
        LET cutoff == CutoffDate(clock, args.days)
            skip_ids == RecentlyUpdatedSeriesIds(AsEpisodeCalls(fail), unwatched_items, cutoff)
            acc == CorrelateAll([movies |-> <<>>, shows |-> <<>>,
                                 movies_cache |-> movies_cache,
                                 series_cache |-> series_cache,
                                 radarr_fails |-> radarr_fails,
                                 sonarr_fails |-> sonarr_fails,
                                 radarr_requests |-> 0,
                                 sonarr_requests |-> 0],
                                unwatched_items, skip_ids)
        IN  /\ report_cutoff_date' = cutoff
            /\ movies' = Listed(acc.movies)
            /\ shows' = Listed(acc.shows)
            /\ movies_cache' = acc.movies_cache
            /\ series_cache' = acc.series_cache
            /\ list_requests' = [radarr |-> acc.radarr_requests,
                                 sonarr |-> acc.sonarr_requests]
            /\ failed' = failed \cup fail
    /\ idx' = 1
    /\ deleted' = NoTally
    /\ pc' = IF DeletionRequested(args.delete_mode) THEN "delete_movies" ELSE "finish"
    /\ UNCHANGED <<args, server, clock, ret, cutoff_date, watched_by_whitelisted,
                   unwatched_items, queried, delete_calls, prompts, scheduler, runs,
                   exit_code, outcome>>

\* one pass of "for i, movie in enumerate(movies, 1)".  A delete call is made
\* for a handle only, and a handle comes from a listing that was cached, so the
\* get_all_movies of delete_movie's failure path reads the cache
DeleteMovie ==
    /\ pc = "delete_movies"
    /\ args.radarr
    /\ idx <= Len(movies)
    /\ \E answer \in Answers, success \in BOOLEAN :
        LET movie == movies[idx]
            decision == Decision(movie, answer)
            calls == IssuesDelete(decision)
        IN  /\ prompts' = IF Prompted(movie)
                          THEN Append(prompts, [item |-> movie.EmbyId, answer |-> answer])
                          ELSE prompts
            /\ delete_calls' = IF calls
                               THEN Append(delete_calls, [service |-> "radarr",
                                                          id |-> movie.Id,
                                                          item |-> movie.EmbyId,
                                                          success |-> success])
                               ELSE delete_calls
            /\ movies_cache' = IF calls
                               THEN CacheAfterDelete(movies_cache, movie.Id, success)
                               ELSE movies_cache
            /\ deleted' = IF decision = "delete" /\ Counted(success)
                          THEN TallyMovie(deleted, movie)
                          ELSE deleted
            /\ IF decision = "quit"
               THEN pc' = "exited" /\ exit_code' = "0" /\ idx' = idx
               ELSE /\ pc' = pc
                    /\ exit_code' = exit_code
                    /\ idx' = NextIndex(idx, movies, decision, success)
    /\ UNCHANGED <<args, server, series_cache, clock, ret, resolution, report,
                   scheduler, runs, outcome>>

\* the movie loop is over, or there is no Radarr client
MoviesDone ==
    /\ pc = "delete_movies"
    /\ ~args.radarr \/ idx > Len(movies)
    /\ pc' = "delete_shows"
    /\ idx' = 1
    /\ UNCHANGED <<args, server, caches, clock, ret, resolution, report, deleted,
                   delete_calls, prompts, scheduler, runs, exit_code, outcome>>

\* one pass of "for i, show in enumerate(shows, 1)".  delete_series reads the
\* title from get_all_series, which returns the cache the handle came from
DeleteShow ==
    /\ pc = "delete_shows"
    /\ args.sonarr
    /\ idx <= Len(shows)
    /\ \E answer \in Answers, success \in BOOLEAN :
        LET show == shows[idx]
            decision == Decision(show, answer)
            calls == IssuesDelete(decision)
        IN  /\ prompts' = IF Prompted(show)
                          THEN Append(prompts, [item |-> show.EmbyId, answer |-> answer])
                          ELSE prompts
            /\ delete_calls' = IF calls
                               THEN Append(delete_calls, [service |-> "sonarr",
                                                          id |-> show.Id,
                                                          item |-> show.EmbyId,
                                                          success |-> success])
                               ELSE delete_calls
            /\ series_cache' = IF calls
                               THEN CacheAfterDelete(series_cache, show.Id, success)
                               ELSE series_cache
            /\ deleted' = IF decision = "delete" /\ Counted(success)
                          THEN TallyShow(deleted, show)
                          ELSE deleted
            /\ IF decision = "quit"
               THEN pc' = "exited" /\ exit_code' = "0" /\ idx' = idx
               ELSE /\ pc' = pc
                    /\ exit_code' = exit_code
                    /\ idx' = NextIndex(idx, shows, decision, success)
    /\ UNCHANGED <<args, server, movies_cache, clock, ret, resolution, report,
                   scheduler, runs, outcome>>

\* the show loop is over, or there is no Sonarr client: the deletion summary
ShowsDone ==
    /\ pc = "delete_shows"
    /\ ~args.sonarr \/ idx > Len(shows)
    /\ pc' = "finish"
    /\ summaries' = summaries \cup {Len(runs)}
    /\ UNCHANGED <<args, server, caches, clock, ret, resolution, report, deletion,
                   scheduler, runs, exit_code, raised>>

\* an exception that is not a transport failure is raised inside the try block
\* of process_unwatched_media: control goes to "except Exception as e"
Unexpected ==
    /\ pc \in {"resolve", "correlate", "delete_movies", "delete_shows"}
    /\ pc' = "except"
    /\ raised' = raised \cup {Len(runs)}
    /\ UNCHANGED <<args, server, caches, clock, ret, resolution, report, deletion,
                   scheduler, runs, exit_code, summaries>>

\* process_unwatched_media returns, from the end of its try block or from its
\* except handler, which only logs the error.  In single-shot mode main returns and the
\* process exits with code 0; in run_scheduled last_run is set and the run's
\* locals (the clients with their caches, the lists) are gone
Finish ==
    /\ pc \in {"finish", "except"}
    /\ IF ret = "single"
       THEN /\ pc' = "exited"
            /\ exit_code' = "0"
            /\ UNCHANGED <<caches, resolution, report, idx, deleted, scheduler>>
       ELSE /\ pc' = AfterRun(ret, pc = "except")
            /\ last_run' = LastRunAfter(ret, tick_now, clock)
            /\ sleep_i' = 0
            /\ movies_cache' = NoCache
            /\ series_cache' = NoCache
            /\ cutoff_date' = NoDate
            /\ failed' = {}
            /\ watched_by_whitelisted' = {}
            /\ unwatched_items' = <<>>
            /\ queried' = {}
            /\ movies' = <<>>
            /\ shows' = <<>>
            /\ report_cutoff_date' = NoDate
            /\ list_requests' = NoRequests
            /\ idx' = 1
            /\ deleted' = NoTally
            /\ UNCHANGED <<stop_event, tick_now, signal_at, exit_code>>
    /\ UNCHANGED <<args, server, clock, ret, delete_calls, prompts, runs, outcome>>

\* the scheduler's clock stays within the explored horizon
WithinHorizon == clock < StartClock + args.interval * SecondsPerHour + MaxOvertime

\* run_scheduled: "if args.run_at_start": the run at start, or on to the loop
RunAtStart ==
    /\ pc = "start"
    /\ IF args.run_at_start
       THEN StartRun("at_start")
       ELSE pc' = "loop" /\ UNCHANGED <<ret, runs>>
    /\ UNCHANGED <<args, server, caches, clock, resolution, report, deletion,
                   scheduler, exit_code, outcome>>

\* "while not stop_event['stop']": leave the loop and sys.exit(0), or enter
\* the body of the loop
Loop ==
    /\ pc = "loop"
    /\ IF stop_event
       THEN pc' = "exited" /\ exit_code' = "0"
       ELSE pc' = "tick" /\ exit_code' = exit_code
    /\ UNCHANGED <<args, server, caches, clock, ret, resolution, report, deletion,
                   scheduler, runs, outcome>>

\* the body of the loop up to the idle wait: sample now, and run when the
\* interval has elapsed since last_run
Tick ==
    /\ pc = "tick"
    /\ tick_now' = clock
    /\ IF last_run # NoDate
          /\ (last_run + args.interval * SecondsPerHour) - clock <= 0
       THEN StartRun("tick") /\ sleep_i' = sleep_i
       ELSE pc' = "wait" /\ sleep_i' = 0 /\ UNCHANGED <<ret, runs>>
    /\ UNCHANGED <<args, server, caches, clock, resolution, report, deletion,
                   last_run, stop_event, signal_at, exit_code, outcome>>

\* "for _ in range(60): if stop_event['stop']: break": the check before a sleep
Wait ==
    /\ pc = "wait"
    /\ WaitIsOver(stop_event, sleep_i) \/ WithinHorizon
    /\ pc' = IF WaitIsOver(stop_event, sleep_i) THEN "loop" ELSE "sleeping"
    /\ UNCHANGED <<args, server, caches, clock, ret, resolution, report, deletion,
                   scheduler, runs, exit_code, outcome>>

\* time.sleep(1)
Sleeping ==
    /\ pc = "sleeping"
    /\ clock' = clock + 1
    /\ sleep_i' = sleep_i + 1
    /\ pc' = "wait"
    /\ UNCHANGED <<args, server, caches, ret, resolution, report, deletion,
                   last_run, stop_event, tick_now, signal_at, runs, exit_code, outcome>>

\* signal_handler ending the process for every signal it is installed for
HandlerExits_Always(sig) == TRUE

\* signal_handler: "if sig == signal.SIGINT: sys.exit(0)"
HandlerExits(sig) == sig = "SIGINT"

\* SIGTERM delivered to signal_handler of setup_signal_handlers
Sigterm ==
    /\ pc \notin {"main", "exited"}
    /\ args.interval > 0
    /\ ~stop_event
    /\ stop_event' = TRUE
    /\ signal_at' = [pc |-> pc, clock |-> clock, runs |-> Len(runs)]
    /\ pc' = IF HandlerExits("SIGTERM") THEN "exited" ELSE pc
    /\ exit_code' = IF HandlerExits("SIGTERM") THEN "0" ELSE exit_code
    /\ UNCHANGED <<args, server, caches, clock, ret, resolution, report, deletion,
                   last_run, sleep_i, tick_now, runs, outcome>>

(* ------------------------------------------------------------------ *)
(* Initial states                                                        *)
(* ------------------------------------------------------------------ *)

\* the cutoff of a run that starts with the process
Cutoff0 == CutoffDate(StartClock, DefaultDays)

\* timestamps before, at and after that cutoff
Dates == {Cutoff0 - 1, Cutoff0, Cutoff0 + 1}

NoUserData == [LastPlayedDate |-> NoDate, Played |-> FALSE, PlayedPercentage |-> 0]

\* the per-user records explored: each sets at most one of the three fields
UserDataCases ==
    { [NoUserData EXCEPT !.LastPlayedDate = d] : d \in Dates \cup {NoDate} }
    \cup { [NoUserData EXCEPT !.Played = TRUE] }
    \cup { [NoUserData EXCEPT !.PlayedPercentage = p] :
             p \in {PlayedPercentageThreshold, PlayedPercentageThreshold + 1} }

Users == << [Id |-> "u1", Name |-> "Alice"], [Id |-> "u2", Name |-> "BOB"] >>

Libraries == << [Name |-> "Movies", ItemId |-> "L1"], [Name |-> "Shows", ItemId |-> "L2"] >>

\* an item that nobody has played, created before the cutoff
OldItem(id, name, type) ==
    [Id |-> id, Name |-> name, Type |-> type,
     DateCreated |-> Cutoff0 - 1, DateLastPlayed |-> NoDate]

OldEpisode(id) == [Id |-> id, DateCreated |-> Cutoff0 - 1, DateLastPlayed |-> NoDate]

DefaultArgs ==
    [days |-> DefaultDays, whitelist |-> {}, libraries |-> {},
     ignore_episodes |-> FALSE, ignore_recent_episodes |-> FALSE,
     sonarr |-> FALSE, radarr |-> FALSE, sort_by_size |-> FALSE,
     delete_mode |-> "none", requested_delete_mode |-> "none", dry_run |-> FALSE,
     interval |-> 0, interval_given |-> FALSE, run_at_start |-> FALSE,
     include_recent |-> FALSE, min_age_days |-> DefaultMinAgeDays]

\* no SIGTERM has arrived
NoSignal == [pc |-> "none", clock |-> NoDate, runs |-> 0]

\* the process before main has done anything
InitProcess ==
    /\ emby_users = Users
    /\ emby_libraries = Libraries
    /\ movies_cache = NoCache
    /\ series_cache = NoCache
    /\ clock = StartClock
    /\ pc = "main"
    /\ ret = "none"
    /\ cutoff_date = NoDate
    /\ failed = {}
    /\ watched_by_whitelisted = {}
    /\ unwatched_items = <<>>
    /\ queried = {}
    /\ movies = <<>>
    /\ shows = <<>>
    /\ report_cutoff_date = NoDate
    /\ list_requests = NoRequests
    /\ idx = 1
    /\ deleted = NoTally
    /\ delete_calls = <<>>
    /\ prompts = <<>>
    /\ last_run = NoDate
    /\ stop_event = FALSE
    /\ sleep_i = 0
    /\ tick_now = NoDate
    /\ signal_at = NoSignal
    /\ runs = <<>>
    /\ raised = {}
    /\ summaries = {}
    /\ exit_code = "running"

\* the --libraries filters explored: none, one library by its name, and the same
\* name in other letters
LibraryFilters == {{}, {"Shows"}, {"shows"}}

\* Resolution: one movie and one series with one episode.  One of the two is
\* the item under study, with every combination of its own timestamps and of
\* user u1's records of it; the other is old and untouched
InitResolve ==
    /\ InitProcess
    /\ radarr_movies = <<>>
    /\ sonarr_series = <<>>
    /\ \E whitelist \in {{"alice", "carol"}, {"bob"}},
          libraries \in LibraryFilters, ignore_episodes \in BOOLEAN,
          include_recent \in BOOLEAN :
         args = [DefaultArgs EXCEPT !.whitelist = whitelist, !.libraries = libraries,
                                    !.ignore_episodes = ignore_episodes,
                                    !.include_recent = include_recent]
    /\ \E focus \in {"m1", "s1"},
          created \in Dates, last_played \in Dates \cup {NoDate},
          ep_last_played \in Dates \cup {NoDate},
          item_data \in UserDataCases, ep_data \in UserDataCases :
        /\ focus = "m1" => ep_last_played = NoDate /\ ep_data = NoUserData
        /\ emby_items =
             [l \in {"L1", "L2"} |->
                IF l = "L1"
                THEN << [OldItem("m1", <<"a">>, "Movie") EXCEPT
                           !.DateCreated = IF focus = "m1" THEN created ELSE @,
                           !.DateLastPlayed = IF focus = "m1" THEN last_played ELSE @] >>
                ELSE << [OldItem("s1", <<"b">>, "Series") EXCEPT
                           !.DateCreated = IF focus = "s1" THEN created ELSE @,
                           !.DateLastPlayed = IF focus = "s1" THEN last_played ELSE @] >>]
        /\ emby_episodes =
             [s \in {"s1"} |->
                << [OldEpisode("e1") EXCEPT !.DateLastPlayed = ep_last_played] >>]
        /\ emby_user_data =
             [k \in {"u1", "u2"} \X {"m1", "s1", "e1"} |->
                IF k[1] = "u1" /\ k[2] = focus THEN item_data
                ELSE IF k[1] = "u1" /\ k[2] = "e1" THEN ep_data
                ELSE NoUserData]

NextResolve == Main \/ GetUnwatchedItems

SpecResolve == InitResolve /\ [][NextResolve]_vars

\* Deletion: two movies and a series that nobody has played, all created before
\* the cutoff, against every Radarr catalog of up to two of three entries, two
\* catalogs whose titles are both contained in a movie's name, and three Sonarr
\* catalogs, under every deletion mode
RadarrEntries ==
    { [id |-> 1, title |-> <<"A">>, sizeOnDisk |-> 2],
      [id |-> 2, title |-> <<"a", "b">>, sizeOnDisk |-> 1],
      [id |-> 3, title |-> <<"d">>, sizeOnDisk |-> 3] }

\* "A" and "B", in both orders: neither equals "ab", which contains both
ContainedCatalogs ==
    LET a == [id |-> 1, title |-> <<"A">>, sizeOnDisk |-> 2]
        b == [id |-> 4, title |-> <<"B">>, sizeOnDisk |-> 4]
    IN  { <<a, b>>, <<b, a>> }

RadarrCatalogs ==
    {<<>>} \cup { <<e>> : e \in RadarrEntries }
    \cup { p \in RadarrEntries \X RadarrEntries : p[1] # p[2] }
    \cup ContainedCatalogs

SonarrCatalogs ==
    { <<>>,
      << [id |-> 7, title |-> <<"C">>, sizeOnDisk |-> 4] >>,
      << [id |-> 8, title |-> <<"d">>, sizeOnDisk |-> 5] >> }

InitDelete ==
    /\ InitProcess
    /\ radarr_movies \in RadarrCatalogs
    /\ sonarr_series \in SonarrCatalogs
    /\ \E delete_mode \in {"none", "all", "interactive"},
          dry_run \in BOOLEAN, radarr \in BOOLEAN, sonarr \in BOOLEAN,
          sort_by_size \in BOOLEAN :
         args = [DefaultArgs EXCEPT !.delete_mode = delete_mode,
                                    !.requested_delete_mode = delete_mode,
                                    !.dry_run = dry_run,
                                    !.radarr = radarr, !.sonarr = sonarr,
                                    !.sort_by_size = sort_by_size]
    /\ emby_items =
         [l \in {"L1", "L2"} |->
            IF l = "L1"
            THEN << OldItem("m1", <<"a">>, "Movie"), OldItem("m2", <<"a", "b">>, "Movie") >>
            ELSE << OldItem("s1", <<"c">>, "Series") >>]
    /\ emby_episodes = [s \in {"s1"} |-> << OldEpisode("e1") >>]
    /\ emby_user_data =
         [k \in {"u1", "u2"} \X {"m1", "m2", "s1", "e1"} |-> NoUserData]

Next ==
    \/ Main
    \/ GetUnwatchedItems
    \/ Correlate
    \/ DeleteMovie
    \/ MoviesDone
    \/ DeleteShow
    \/ ShowsDone
    \/ Unexpected
    \/ Finish

Spec == InitDelete /\ [][Next]_vars

\* the values of --days and of --min-age-days explored, in days
DaysValues == {1, 2}

MinAgeValues == {1, 2, 3}

\* the ages of the items explored: one second more than one, two, three days
Ages == { d * SecondsPerDay + 1 : d \in 1..3 }

\* Minimum age: a movie and a series of the same age that nobody has played,
\* both in their catalogs, under every pair of --days and --min-age-days
InitMinAge ==
    /\ InitProcess
    /\ radarr_movies = << [id |-> 1, title |-> <<"A">>, sizeOnDisk |-> 2] >>
    /\ sonarr_series = << [id |-> 7, title |-> <<"C">>, sizeOnDisk |-> 4] >>
    /\ \E delete_mode \in {"all", "interactive"}, dry_run \in BOOLEAN,
          days \in DaysValues, min_age_days \in MinAgeValues :
         args = [DefaultArgs EXCEPT !.delete_mode = delete_mode,
                                    !.requested_delete_mode = delete_mode,
                                    !.dry_run = dry_run,
                                    !.radarr = TRUE, !.sonarr = TRUE,
                                    !.days = days,
                                    !.min_age_days = min_age_days]
    /\ \E age \in Ages :
        /\ emby_items =
             [l \in {"L1", "L2"} |->
                IF l = "L1"
                THEN << [OldItem("m1", <<"a">>, "Movie") EXCEPT
                           !.DateCreated = StartClock - age] >>
                ELSE << [OldItem("s1", <<"c">>, "Series") EXCEPT
                           !.DateCreated = StartClock - age] >>]
        /\ emby_episodes =
             [s \in {"s1"} |->
                << [OldEpisode("e1") EXCEPT !.DateCreated = StartClock - age] >>]
    /\ emby_user_data = [k \in {"u1", "u2"} \X {"m1", "s1", "e1"} |-> NoUserData]

SpecMinAge == InitMinAge /\ [][Next]_vars

\* the creation timestamps of the episode explored: before the cutoff, and
\* after it by more than a run can take
EpisodeDates == {Cutoff0 - 1, Cutoff0 + MaxElapsed + 1}

\* Recently added episodes: a movie and a series that nobody has played, both
\* old and in their catalogs; the series' episode is old or recently added;
\* with and without --ignore-episodes and --ignore-recent-episodes
InitRecent ==
    /\ InitProcess
    /\ radarr_movies = << [id |-> 1, title |-> <<"A">>, sizeOnDisk |-> 2] >>
    /\ sonarr_series = << [id |-> 7, title |-> <<"C">>, sizeOnDisk |-> 4] >>
    /\ \E delete_mode \in {"all", "interactive"}, dry_run \in BOOLEAN,
          ignore_episodes \in BOOLEAN, ignore_recent_episodes \in BOOLEAN :
         args = [DefaultArgs EXCEPT !.delete_mode = delete_mode,
                                    !.requested_delete_mode = delete_mode,
                                    !.dry_run = dry_run,
                                    !.radarr = TRUE, !.sonarr = TRUE,
                                    !.ignore_episodes = ignore_episodes,
                                    !.ignore_recent_episodes = ignore_recent_episodes]
    /\ emby_items =
         [l \in {"L1", "L2"} |->
            IF l = "L1"
            THEN << OldItem("m1", <<"a">>, "Movie") >>
            ELSE << OldItem("s1", <<"c">>, "Series") >>]
    /\ \E created \in EpisodeDates :
         emby_episodes =
             [s \in {"s1"} |-> << [OldEpisode("e1") EXCEPT !.DateCreated = created] >>]
    /\ emby_user_data = [k \in {"u1", "u2"} \X {"m1", "s1", "e1"} |-> NoUserData]

SpecRecent == InitRecent /\ [][Next]_vars

\* the values of --interval explored: negative, zero and one hour
Intervals == {-1, 0, 1}

\* Scheduling: a movie and a series that nobody has played, both in their
\* catalogs, with --interval given, with and without --run-at-start
InitSched ==
    /\ InitProcess
    /\ radarr_movies = << [id |-> 1, title |-> <<"A">>, sizeOnDisk |-> 2] >>
    /\ sonarr_series = << [id |-> 7, title |-> <<"C">>, sizeOnDisk |-> 4] >>
    /\ \E delete_mode \in {"all", "interactive"}, run_at_start \in BOOLEAN,
          interval \in Intervals :
         args = [DefaultArgs EXCEPT !.delete_mode = delete_mode,
                                    !.requested_delete_mode = delete_mode,
                                    !.radarr = TRUE, !.sonarr = TRUE,
                                    !.interval = interval,
                                    !.interval_given = TRUE,
                                    !.run_at_start = run_at_start]
    /\ emby_items =
         [l \in {"L1", "L2"} |->
            IF l = "L1"
            THEN << OldItem("m1", <<"a">>, "Movie") >>
            ELSE << OldItem("s1", <<"c">>, "Series") >>]
    /\ emby_episodes = [s \in {"s1"} |-> << OldEpisode("e1") >>]
    /\ emby_user_data =
         [k \in {"u1", "u2"} \X {"m1", "s1", "e1"} |-> NoUserData]

NextSched ==
    \/ Main
    \/ GetUnwatchedItems
    \/ Correlate
    \/ DeleteMovie
    \/ MoviesDone
    \/ DeleteShow
    \/ ShowsDone
    \/ Unexpected
    \/ Finish
    \/ RunAtStart
    \/ Loop
    \/ Tick
    \/ Wait
    \/ Sleeping
    \/ Sigterm

SpecSched == InitSched /\ [][NextSched]_vars

(* ------------------------------------------------------------------ *)
(* Claims about get_unwatched_items (checked under SpecResolve)          *)
(* ------------------------------------------------------------------ *)

\* the libraries a run with this filter is about
ActiveLibrarySet ==
    { l \in Range(emby_libraries) : args.libraries = {} \/ l.Name \in args.libraries }

\* the users the whitelist names, whatever the case of the letters
WhitelistedUsers ==
    { u \in Range(emby_users) : \E n \in args.whitelist : Lower(n) = Lower(u.Name) }

\* the ids of the items get_unwatched_items returned
UnwatchedIds == { unwatched_items[i].Id : i \in 1..Len(unwatched_items) }

\* the run received user u's records of library l
UserItemsReturned(u, l) ==
    /\ Call("users", "", "") \notin failed
    /\ Call("libraries", "", "") \notin failed
    /\ Call("user_items", u.Id, l.ItemId) \notin failed

\* C1: after get_unwatched_items, no item of an active library is in the
\* returned list if a whitelisted user's record of it, as the run received it,
\* has LastPlayedDate > cutoff, or Played = true, or PlayedPercentage > 75.
C1_WhitelistedWatchNeverListed ==
    pc = "correlate" =>
        \A l \in ActiveLibrarySet : \A u \in WhitelistedUsers :
            \A i \in 1..Len(emby_items[l.ItemId]) :
                LET item == emby_items[l.ItemId][i]
                    record == emby_user_data[<<u.Id, item.Id>>]
                IN  (/\ UserItemsReturned(u, l)
                     /\ \/ (record.LastPlayedDate # NoDate
                            /\ record.LastPlayedDate > cutoff_date)
                        \/ record.Played
                        \/ record.PlayedPercentage > 75)
                    => item.Id \notin UnwatchedIds

\* C1 witness: the whitelisted user's record of the movie says 76 percent, the
\* movie is old and never played, and the run lists the series but not the movie.
C1_Witness ==
    /\ pc = "correlate"
    /\ failed = {}
    /\ "alice" \in args.whitelist
    /\ emby_user_data[<<"u1", "m1">>].PlayedPercentage = 76
    /\ emby_items["L1"][1].DateLastPlayed = NoDate
    /\ emby_items["L1"][1].DateCreated < cutoff_date
    /\ UnwatchedIds = {"s1"}

\* C2: after get_unwatched_items without transport failures and without
\* --ignore-episodes, a series of an active library is not in the returned list
\* if a whitelisted user's record of any of its episodes satisfies the watched
\* predicate, whatever that user's record of the series itself says.
C2_EpisodeWatchExcludesSeries ==
    (pc = "correlate" /\ failed = {} /\ ~args.ignore_episodes) =>
        \A l \in ActiveLibrarySet : \A u \in WhitelistedUsers :
            \A i \in 1..Len(emby_items[l.ItemId]) :
                LET item == emby_items[l.ItemId][i]
                IN  (/\ item.Type = "Series"
                     /\ \E k \in 1..Len(emby_episodes[item.Id]) :
                          LET record == emby_user_data[<<u.Id, emby_episodes[item.Id][k].Id>>]
                          IN  \/ (record.LastPlayedDate # NoDate
                                  /\ record.LastPlayedDate > cutoff_date)
                              \/ record.Played
                              \/ record.PlayedPercentage > 75)
                    => item.Id \notin UnwatchedIds

(* ------------------------------------------------------------------ *)
(* Claims about the deletion phase (checked under Spec)                  *)
(* ------------------------------------------------------------------ *)

RECURSIVE SumSizes(_)
\* the sizes of the entries of a list, added up
SumSizes(list) ==
    IF list = <<>> THEN 0 ELSE Head(list).Size + SumSizes(Tail(list))

\* the operator answered yes to the prompt for this item
Accepted(emby_id) ==
    \E k \in 1..Len(prompts) : prompts[k].item = emby_id /\ prompts[k].answer = "y"

\* the entries of a list that have a delete handle
Actionable(list, client) ==
    IF client THEN SelectSeq(list, LAMBDA e : e.Id # NoId) ELSE <<>>

\* the entries of a list the run confirmed: with a delete handle, and either
\* the mode is 'all' or the operator accepted
Confirmed(list, client) ==
    SelectSeq(Actionable(list, client),
              LAMBDA e : args.delete_mode = "all" \/ Accepted(e.EmbyId))

\* C3: in a dry run no delete request is ever issued to Radarr or Sonarr, and
\* when the deletion phase is over the summary counts every confirmed movie and
\* show and the freed sizes are the sums of their sizes.
C3_DryRunCountsButNeverDeletes ==
    args.dry_run =>
        /\ delete_calls = <<>>
        /\ pc = "finish" =>
             deleted = [movie_size |-> SumSizes(Confirmed(movies, args.radarr)),
                        movie_count |-> Len(Confirmed(movies, args.radarr)),
                        show_size |-> SumSizes(Confirmed(shows, args.sonarr)),
                        show_count |-> Len(Confirmed(shows, args.sonarr))]

\* C3 witness: an interactive dry run ends with one movie and one show accepted
\* and counted, one movie declined, and no delete request issued.
C3_Witness ==
    /\ pc = "finish"
    /\ args.dry_run
    /\ args.delete_mode = "interactive"
    /\ deleted.movie_count = 1 /\ deleted.movie_size > 0
    /\ deleted.show_count = 1 /\ deleted.show_size > 0
    /\ \E k \in 1..Len(prompts) : prompts[k].answer = "n"
    /\ delete_calls = <<>>

\* the title of a catalog entry equals the name, or one contains the other,
\* letter case aside
TitleMatches(title, name) ==
    \/ LowerTitle(title) = LowerTitle(name)
    \/ Contains(LowerTitle(title), LowerTitle(name))
    \/ Contains(LowerTitle(name), LowerTitle(title))

\* no lookup for this unwatched item can find a catalog entry
NoCatalogMatch(item) ==
    IF item.Type = "Movie"
    THEN ~args.radarr \/ \A e \in Range(radarr_movies) : ~TitleMatches(e.title, item.Name)
    ELSE ~args.sonarr \/ \A e \in Range(sonarr_series) : ~TitleMatches(e.title, item.Name)

\* C5: once the report is built, every unwatched item without a catalog match
\* (or whose gateway is not configured) is listed with size 0 and no delete
\* handle, and it is never prompted for and never the subject of a delete call.
C5_UnmatchedListedNeverActedOn ==
    (pc \in {"delete_movies", "delete_shows", "finish", "exited"}
     /\ Len(runs) \notin raised) =>
        \A i \in 1..Len(unwatched_items) :
            LET item == unwatched_items[i]
                list == IF item.Type = "Movie" THEN movies ELSE shows
            IN  /\ NoCatalogMatch(item) =>
                     \E k \in 1..Len(list) :
                        /\ list[k].EmbyId = item.Id
                        /\ list[k].Size = 0
                        /\ list[k].Id = NoId
                /\ \A k \in 1..Len(list) :
                     (list[k].EmbyId = item.Id /\ list[k].Id = NoId) =>
                        /\ list[k].Size = 0
                        /\ \A j \in 1..Len(prompts) : prompts[j].item # item.Id
                        /\ \A j \in 1..Len(delete_calls) : delete_calls[j].item # item.Id

\* C5 witness: under mode 'all', live, Radarr holds an entry that matches one
\* movie and not the other: the first is deleted, the second is listed with no
\* handle and the run ends without a delete call for it.
C5_Witness ==
    /\ pc = "finish"
    /\ args.delete_mode = "all" /\ ~args.dry_run /\ args.radarr
    /\ Len(movies) = 2
    /\ \E k \in 1..2 : movies[k].Id = NoId /\ movies[k].EmbyId = "m1"
    /\ \E k \in 1..2 : movies[k].Id # NoId /\ movies[k].EmbyId = "m2"
    /\ \E k \in 1..Len(delete_calls) : delete_calls[k].item = "m2"

RECURSIVE SumSucceeded(_, _, _)
\* the sizes of the first n confirmed entries whose delete call to the service
\* succeeded, added up
SumSucceeded(n, service, confirmed) ==
    IF n = 0 THEN 0
    ELSE SumSucceeded(n - 1, service, confirmed)
         + (IF delete_calls[n].service = service /\ delete_calls[n].success
            THEN confirmed[n].Size ELSE 0)

\* C6: at the end of a live deletion phase, whatever calls failed, one delete
\* call was issued for every confirmed entry, movies first and then shows, in
\* the order of the lists; in interactive mode every entry with a handle was
\* prompted for; and the tally holds the count and size of exactly the entries
\* whose call succeeded.
C6_FailureDoesNotStopTheBatch ==
    (pc = "finish" /\ ~args.dry_run /\ args.delete_mode # "none") =>
        LET confirmed == Confirmed(movies, args.radarr) \o Confirmed(shows, args.sonarr)
            actionable == Actionable(movies, args.radarr) \o Actionable(shows, args.sonarr)
            n == Len(delete_calls)
        IN  /\ n = Len(confirmed)
            /\ \A k \in 1..n : /\ delete_calls[k].item = confirmed[k].EmbyId
                               /\ delete_calls[k].id = confirmed[k].Id
            /\ args.delete_mode = "interactive" =>
                 /\ Len(prompts) = Len(actionable)
                 /\ \A k \in 1..Len(prompts) : prompts[k].item = actionable[k].EmbyId
            /\ deleted.movie_count =
                 Cardinality({ k \in 1..n : delete_calls[k].service = "radarr"
                                            /\ delete_calls[k].success })
            /\ deleted.show_count =
                 Cardinality({ k \in 1..n : delete_calls[k].service = "sonarr"
                                            /\ delete_calls[k].success })
            /\ deleted.movie_size = SumSucceeded(n, "radarr", confirmed)
            /\ deleted.show_size = SumSucceeded(n, "sonarr", confirmed)

\* C6 witness: under mode 'all', live, the first movie's delete call fails, and
\* the second movie and the show are still deleted and counted.
C6_Witness ==
    /\ pc = "finish"
    /\ args.delete_mode = "all" /\ ~args.dry_run
    /\ Len(delete_calls) = 3
    /\ ~delete_calls[1].success /\ delete_calls[2].success /\ delete_calls[3].success
    /\ delete_calls[3].service = "sonarr"
    /\ deleted.movie_count = 1 /\ deleted.show_count = 1

\* the names the items of the model go by, and the titles of the catalogs
ProbeTitles ==
    { emby_items[l][i].Name : <<l, i>> \in
        { p \in (DOMAIN emby_items) \X (1..2) : p[2] <= Len(emby_items[p[1]]) } }
    \cup { e.title : e \in Range(radarr_movies) \cup Range(sonarr_series) }

\* C7: once a delete call for catalog id X has succeeded, the gateway's cache
\* is held and has no entry with id X, and a find_movie_by_title /
\* find_series_by_title call for any title returns no entry with id X, whether
\* or not a list request would fail.
C7_DeletedEntryLeavesTheCache ==
    \A k \in 1..Len(delete_calls) :
        delete_calls[k].success =>
            LET x == delete_calls[k].id
                cache == IF delete_calls[k].service = "radarr"
                         THEN movies_cache ELSE series_cache
                remote == IF delete_calls[k].service = "radarr"
                          THEN radarr_movies ELSE sonarr_series
            IN  /\ cache.loaded
                /\ \A e \in Range(cache.entries) : e.id # x
                /\ \A title \in ProbeTitles : \A request_fails \in BOOLEAN :
                     FindByTitle(GetAll(cache, remote, request_fails), title).id # x

\* C7 witness: a Radarr entry was deleted, another is still held, and the
\* remote catalog still lists the deleted id.
C7_Witness ==
    /\ \E k \in 1..Len(delete_calls) :
          /\ delete_calls[k].success
          /\ delete_calls[k].service = "radarr"
          /\ \E e \in Range(radarr_movies) : e.id = delete_calls[k].id
    /\ movies_cache.loaded
    /\ movies_cache.entries # <<>>

(* ------------------------------------------------------------------ *)
(* Claims about main and run_scheduled, checked under SpecSched        *)
(* ------------------------------------------------------------------ *)

\* C4: when delete mode 'interactive' is requested together with a recurring
\* interval, the mode is 'none' from the moment main hands over to the
\* scheduler, so in every scheduled run, the run at start included, no prompt
\* occurs and no delete call is issued.
C4_InteractiveIsDowngradedWhenScheduled ==
    (args.interval > 0 /\ args.requested_delete_mode = "interactive" /\ pc # "main") =>
        /\ args.delete_mode = "none"
        /\ prompts = <<>>
        /\ delete_calls = <<>>

\* C4 witness: interactive was requested, the run at start is over and a
\* scheduled run has reported a movie and a series that both have a catalog
\* handle, and nothing was prompted or deleted.
C4_Witness ==
    /\ args.requested_delete_mode = "interactive"
    /\ args.delete_mode = "none"
    /\ Len(runs) = 2
    /\ ret = "tick"
    /\ pc = "finish"
    /\ \E k \in 1..Len(movies) : movies[k].Id # NoId
    /\ \E k \in 1..Len(shows) : shows[k].Id # NoId
    /\ prompts = <<>>
    /\ delete_calls = <<>>

\* a step of the tick loop that samples now while last_run is set
TickStep == pc = "tick" /\ last_run # NoDate /\ pc' # pc

\* the step that ends a scheduled run
EndOfScheduledRun == pc = "finish" /\ ret = "tick" /\ pc' # pc

\* C8: with last_run = T, a tick where now - T < interval starts no run; a tick
\* where now - T >= interval starts exactly one run; runs start nowhere else in
\* the loop; and when that run is over last_run is the now sampled at its tick,
\* not the time the run finished.
C8_RunExactlyWhenIntervalElapsed ==
    [][ /\ TickStep =>
            /\ tick_now' = clock
            /\ IF clock - last_run < args.interval * SecondsPerHour
               THEN runs' = runs /\ pc' = "wait"
               ELSE /\ runs' = Append(runs, [how |-> "tick", at |-> clock])
                    /\ pc' = "resolve"
        /\ runs' # runs => (pc \in {"main", "start"} \/ TickStep)
        /\ EndOfScheduledRun =>
            /\ last_run' = runs[Len(runs)].at
            /\ last_run' = tick_now
            /\ pc' = "wait"
        /\ last_run' # last_run => pc \in {"finish", "except"}
      ]_vars

\* C8 witness: a scheduled run that took time is over, it started at the first
\* tick at which a whole interval had passed since last_run, and last_run is
\* the time of that tick.
C8_Witness ==
    /\ pc = "wait"
    /\ sleep_i = 0
    /\ Len(runs) = 2
    /\ runs[2].how = "tick"
    /\ runs[2].at - runs[1].at >= args.interval * SecondsPerHour
    /\ last_run = runs[2].at
    /\ clock > last_run

\* the start of the process, or of the latest run
LatestStart == IF runs = <<>> THEN StartClock ELSE runs[Len(runs)].at

\* C9: in recurring mode with no stop request a run starts within every
\* interval (plus one wake cycle and the time a run takes), measured from the
\* start of the process or of the previous run, with or without --run-at-start.
C9_RunsRecurOncePerInterval ==
    (args.interval > 0 /\ pc # "main" /\ ~stop_event) =>
        clock - LatestStart
            <= args.interval * SecondsPerHour + SleepIterations + MaxElapsed

\* C10: when SIGTERM sets the stop flag during the idle wait, at most the
\* one-second sleep in progress completes, the loop is left without another
\* run, the process can always take its next step, and it exits with code 0.
C10_SigtermInIdleWaitExitsPromptly ==
    signal_at.pc \in {"wait", "sleeping"} =>
        /\ pc \in {"wait", "sleeping", "loop", "exited"}
        /\ clock - signal_at.clock <= 1
        /\ pc = "sleeping" => (signal_at.pc = "sleeping" /\ clock = signal_at.clock)
        /\ Len(runs) = signal_at.runs
        /\ pc = "exited" => exit_code = "0"
        /\ pc # "exited" => ENABLED (Wait \/ Sleeping \/ Loop)

\* C10 witness: SIGTERM arrived during the last sleep before a run was due, and
\* the process has exited with code 0 one second later without that run.
C10_Witness ==
    /\ signal_at.pc = "sleeping"
    /\ pc = "exited"
    /\ exit_code = "0"
    /\ clock = signal_at.clock + 1
    /\ last_run # NoDate
    /\ clock - last_run >= args.interval * SecondsPerHour
    /\ Len(runs) = signal_at.runs

(* ------------------------------------------------------------------ *)
(* Claims about the cutoff and the global pass                          *)
(* ------------------------------------------------------------------ *)

\* C11: within one run the recently-added-episode check of
\* process_unwatched_media compares against the same cutoff value as the two
\* passes of get_unwatched_items: the cutoff computed at the start of the run.
C11_OneCutoffPerRun ==
    report_cutoff_date # NoDate =>
        /\ report_cutoff_date = cutoff_date
        /\ cutoff_date = CutoffDate(runs[Len(runs)].at, args.days)

\* the items of the active libraries whose listing the global pass received
ItemsReceived ==
    UNION { IF Call("libraries", "", "") \in failed \/ Call("items", l.ItemId, "") \in failed
            THEN {}
            ELSE Range(emby_items[l.ItemId])
            : l \in ActiveLibrarySet }

\* the series has an episode that somebody played after the cutoff
HasRecentlyPlayedEpisode(item) ==
    /\ item.Type = "Series"
    /\ \E k \in 1..Len(emby_episodes[item.Id]) :
          /\ emby_episodes[item.Id][k].DateLastPlayed # NoDate
          /\ emby_episodes[item.Id][k].DateLastPlayed > cutoff_date

\* the global pass looks at the episodes of this series and receives them
EpisodesConsulted(item) ==
    /\ ~args.ignore_episodes
    /\ Call("episodes", item.Id, "") \notin failed

\* the global pass skipped the item for a recently played episode
Vetoed(item) == HasRecentlyPlayedEpisode(item) /\ EpisodesConsulted(item)

\* C12 as claimed: an item created exactly at the cutoff is treated as recently
\* added, so every item of the result was created strictly before the cutoff.
C12_CreatedAtCutoffIsExcluded ==
    pc = "correlate" =>
        \A k \in 1..Len(unwatched_items) : unwatched_items[k].DateCreated < cutoff_date

\* C12 as amended: only an item created strictly after the cutoff is treated
\* as recently added.  No item of the result was created after the cutoff, and
\* an item created exactly at the cutoff is in the result when it is not in
\* the exclusion set, not vetoed by an episode, and its own last-played
\* timestamp is absent or before the cutoff.
C12_CreatedAtCutoffIsNotRecent ==
    pc = "correlate" =>
        /\ \A k \in 1..Len(unwatched_items) : unwatched_items[k].DateCreated <= cutoff_date
        /\ \A item \in ItemsReceived :
             (/\ item.DateCreated = cutoff_date
              /\ item.Id \notin watched_by_whitelisted
              /\ ~Vetoed(item)
              /\ (item.DateLastPlayed = NoDate \/ item.DateLastPlayed < cutoff_date))
             => item.Id \in UnwatchedIds

\* C12 witness: the movie was created exactly at the cutoff, was never played,
\* and is in the result.
C12_Witness ==
    /\ pc = "correlate"
    /\ failed = {}
    /\ emby_items["L1"][1].DateCreated = cutoff_date
    /\ emby_items["L1"][1].DateLastPlayed = NoDate
    /\ "m1" \in UnwatchedIds

\* C13: an item of an active library that is not in the exclusion set, is not
\* a series vetoed by a recently played episode, and was created before the
\* cutoff, is in the result if and only if its own last-played timestamp is
\* absent or strictly before the cutoff.
C13_UnwatchedIffNotPlayedSinceCutoff ==
    pc = "correlate" =>
        \A item \in ItemsReceived :
            (/\ item.Id \notin watched_by_whitelisted
             /\ ~Vetoed(item)
             /\ item.DateCreated < cutoff_date)
            => (item.Id \in UnwatchedIds
                  <=> (item.DateLastPlayed = NoDate \/ item.DateLastPlayed < cutoff_date))

\* C13 witness: the series was created before the cutoff and last played
\* exactly at the cutoff, no episode vetoes it, and the result holds the movie
\* (never played) but not the series.
C13_Witness ==
    /\ pc = "correlate"
    /\ failed = {}
    /\ watched_by_whitelisted = {}
    /\ args.libraries = {}
    /\ emby_items["L2"][1].DateCreated < cutoff_date
    /\ emby_items["L2"][1].DateLastPlayed = cutoff_date
    /\ ~HasRecentlyPlayedEpisode(emby_items["L2"][1])
    /\ UnwatchedIds = {"m1"}

\* C14 as claimed: a series that is not in the exclusion set and has an episode
\* played after the cutoff is never in the result, whatever the flags.
C14_RecentEpisodeVetoesSeries ==
    (pc = "correlate" /\ failed = {}) =>
        \A item \in ItemsReceived :
            (item.Id \notin watched_by_whitelisted /\ HasRecentlyPlayedEpisode(item))
            => item.Id \notin UnwatchedIds

\* C14 as amended: unless --ignore-episodes is set, a series that is not in the
\* exclusion set and whose episode listing, as the run received it, has an
\* episode played after the cutoff is absent from the result, whatever the
\* series' own timestamps and the whitelist.
C14_RecentEpisodeVetoesSeriesUnlessIgnored ==
    pc = "correlate" =>
        \A item \in ItemsReceived :
            (/\ item.Id \notin watched_by_whitelisted
             /\ HasRecentlyPlayedEpisode(item)
             /\ EpisodesConsulted(item))
            => item.Id \notin UnwatchedIds

\* C14 witness: the series is old and was never played itself, no whitelisted
\* user has a record of it, one episode was played after the cutoff, and the
\* result holds the movie but not the series.
C14_Witness ==
    /\ pc = "correlate"
    /\ failed = {}
    /\ ~args.ignore_episodes
    /\ watched_by_whitelisted = {}
    /\ emby_items["L2"][1].DateCreated < cutoff_date
    /\ emby_items["L2"][1].DateLastPlayed = NoDate
    /\ HasRecentlyPlayedEpisode(emby_items["L2"][1])
    /\ args.libraries = {}
    /\ UnwatchedIds = {"m1"}

(* ------------------------------------------------------------------ *)
(* Claims about the correlation and the deletion policies (Spec)        *)
(* ------------------------------------------------------------------ *)

\* the positions of the catalog entries whose title equals the name, letter
\* case aside
EqualTitled(catalog, name) ==
    { i \in 1..Len(catalog) : LowerTitle(catalog[i].title) = LowerTitle(name) }

\* the first catalog entry whose title equals the name
FirstEqualTitled(catalog, name) ==
    catalog[CHOOSE i \in EqualTitled(catalog, name) :
                \A j \in EqualTitled(catalog, name) : i <= j]

\* the listed entries carry the handle of the first equal-titled catalog entry
\* whenever there is one and the lookup got the catalog
HandlesOfEqualTitled(list, catalog) ==
    \A k \in 1..Len(list) :
        (list[k].Id # NoId /\ EqualTitled(catalog, list[k].Name) # {}) =>
            /\ list[k].Id = FirstEqualTitled(catalog, list[k].Name).id
            /\ list[k].Size = FirstEqualTitled(catalog, list[k].Name).sizeOnDisk

\* C15: for every catalog and every name, if some catalog entry's title equals
\* the name case-insensitively, find_movie_by_title / find_series_by_title
\* returns the first such entry in catalog order, never an entry that matches
\* only by containment (checked for every catalog and name the process starts
\* with); and the report carries that entry's handle.
C15_ExactMatchWinsOverContainment ==
    /\ pc = "main" =>
         \A catalog \in {radarr_movies, sonarr_series} : \A name \in ProbeTitles :
            EqualTitled(catalog, name) # {} =>
               /\ FindByTitle(catalog, name) = FirstEqualTitled(catalog, name)
               /\ LowerTitle(FindByTitle(catalog, name).title) = LowerTitle(name)
    /\ HandlesOfEqualTitled(movies, radarr_movies)
    /\ HandlesOfEqualTitled(shows, sonarr_series)

\* C15 witness: Radarr lists "ab" before "A"; the movie named "a" is contained
\* in the first title and equals the second, and the report gives it the handle
\* of "A", and the movie named "ab" the handle of "ab".
C15_Witness ==
    /\ Len(radarr_movies) = 2
    /\ radarr_movies[1].title = <<"a", "b">>
    /\ radarr_movies[2].title = <<"A">>
    /\ Len(movies) = 2
    /\ \E k \in 1..2 : movies[k].EmbyId = "m1" /\ movies[k].Id = radarr_movies[2].id
    /\ \E k \in 1..2 : movies[k].EmbyId = "m2" /\ movies[k].Id = radarr_movies[1].id

\* the delete calls issued for an item of the media server
CallsFor(emby_id) == { k \in 1..Len(delete_calls) : delete_calls[k].item = emby_id }

\* at most one delete call was issued for each entry of the list that has a
\* handle, exactly one if the list is done, to this service and with the handle
OneCallPerHandle(list, service, done) ==
    \A k \in 1..Len(list) :
        list[k].Id # NoId =>
            /\ Cardinality(CallsFor(list[k].EmbyId)) <= 1
            /\ done => Cardinality(CallsFor(list[k].EmbyId)) = 1
            /\ \A j \in CallsFor(list[k].EmbyId) :
                  delete_calls[j].id = list[k].Id /\ delete_calls[j].service = service

\* C16: under delete mode 'all', live and single-shot, no operator prompt ever
\* occurs, and when the deletion loops are over exactly one delete call has
\* been issued for every listed item that has a delete handle, with its handle.
C16_AllConfirmsEveryHandle ==
    (args.delete_mode = "all" /\ ~args.dry_run /\ args.interval = 0) =>
        /\ prompts = <<>>
        /\ OneCallPerHandle(movies, "radarr", pc \in {"delete_shows", "finish"})
        /\ OneCallPerHandle(shows, "sonarr", pc = "finish")

\* C16 witness: under 'all', live, the two movies and the show all have a
\* handle, the deletion loops are over, three delete calls were issued and
\* nobody was asked.
C16_Witness ==
    /\ pc = "finish"
    /\ args.delete_mode = "all" /\ ~args.dry_run /\ args.interval = 0
    /\ Len(movies) = 2 /\ Len(shows) = 1
    /\ \A k \in 1..2 : movies[k].Id # NoId
    /\ shows[1].Id # NoId
    /\ Len(delete_calls) = 3
    /\ prompts = <<>>

\* C17: under delete mode 'none' no step of a run issues a delete call or a
\* prompt, the deletion section is never entered and prints no summary, and
\* once the correlation is over no step changes either catalog cache.
C17_NoneNeverDeletes ==
    [][ args.delete_mode = "none" =>
          /\ delete_calls' = <<>>
          /\ prompts' = <<>>
          /\ pc' \notin {"delete_movies", "delete_shows"}
          /\ summaries' = {}
          /\ pc \notin {"main", "resolve", "correlate"} => UNCHANGED caches
      ]_vars

\* C17 witness: under 'none' with both catalogs configured the run is over, a
\* movie and the show were listed with a handle, both caches hold the catalogs
\* as fetched, and nothing was deleted or asked.
C17_Witness ==
    /\ pc = "exited"
    /\ raised = {}
    /\ args.delete_mode = "none"
    /\ \E k \in 1..Len(movies) : movies[k].Id # NoId
    /\ \E k \in 1..Len(shows) : shows[k].Id # NoId
    /\ movies_cache = [loaded |-> TRUE, entries |-> radarr_movies]
    /\ series_cache = [loaded |-> TRUE, entries |-> sonarr_series]
    /\ delete_calls = <<>>
    /\ prompts = <<>>

\* the operator has answered quit at the latest prompt
QuitAnswered == prompts # <<>> /\ prompts[Len(prompts)].answer = "q"

\* the step in which the operator answers quit
QuitStep ==
    /\ Len(prompts') = Len(prompts) + 1
    /\ prompts'[Len(prompts')].answer = "q"

\* C18: in interactive mode the step in which the operator answers quit ends
\* the process with exit code 0 without a delete call, a tally change or a
\* deletion summary; every item accepted before has had its delete call issued
\* (in a live run); and after the quit the process takes no further step.
C18_QuitEndsTheProcess ==
    [][ /\ QuitStep =>
            /\ pc' = "exited"
            /\ exit_code' = "0"
            /\ delete_calls' = delete_calls
            /\ deleted' = deleted
            /\ summaries' = summaries /\ summaries = {}
            /\ ~args.dry_run =>
                 \A k \in 1..Len(prompts) :
                    prompts[k].answer = "y" => CallsFor(prompts[k].item) # {}
        /\ ~QuitAnswered
      ]_vars

\* C18 witness: in a live interactive run the operator accepted the first
\* movie, whose delete call was issued, and quit at the second; the show, which
\* has a handle, was never prompted for, and the process has exited with code 0.
C18_Witness ==
    /\ pc = "exited"
    /\ exit_code = "0"
    /\ ~args.dry_run
    /\ Len(prompts) = 2
    /\ prompts[1].answer = "y" /\ prompts[2].answer = "q"
    /\ Len(delete_calls) = 1 /\ delete_calls[1].item = prompts[1].item
    /\ \E k \in 1..Len(shows) : shows[k].Id # NoId
    /\ summaries = {}

\* C19: in single-shot mode a process whose run ended in an unexpected failure
\* exits with a non-zero code.
C19_UnexpectedFailureExitsNonZero ==
    (pc = "exited" /\ args.interval = 0 /\ raised # {}) => exit_code # "0"

(* ------------------------------------------------------------------ *)
(* Claims about failures inside a scheduled run (SpecSched)             *)
(* ------------------------------------------------------------------ *)

\* process_unwatched_media returns to run_scheduled from its except handler
FailedRunReturns == pc = "except" /\ ret # "single" /\ pc' # pc

\* a step of the tick loop that samples now, the latest run having failed
TickAfterFailedRun == TickStep /\ Len(runs) \in raised

\* C20: in recurring mode a run that ends in the except handler is the only
\* thing abandoned: the process keeps running in the tick loop, last_run
\* advances (to that tick for a scheduled run, to the time the run at start
\* ended), and a later tick starts the next run exactly when a whole interval
\* has passed since last_run.
C20_FailedRunDoesNotStopTheScheduler ==
    [][ /\ FailedRunReturns =>
            /\ pc' \in {"loop", "wait"}
            /\ exit_code' = "running"
            /\ stop_event' = stop_event
            /\ last_run' = IF ret = "tick" THEN runs[Len(runs)].at ELSE clock
        /\ TickAfterFailedRun =>
            IF clock - last_run >= args.interval * SecondsPerHour
            THEN runs' = Append(runs, [how |-> "tick", at |-> clock]) /\ pc' = "resolve"
            ELSE runs' = runs /\ pc' = "wait"
      ]_vars

\* C20 witness: the run at start failed, the next run started at the first tick
\* a whole interval later and failed too, and the scheduler is back in its idle
\* wait with last_run at that tick.
C20_Witness ==
    /\ raised = {1, 2}
    /\ Len(runs) = 2
    /\ runs[2].how = "tick"
    /\ runs[2].at - runs[1].at >= args.interval * SecondsPerHour
    /\ pc = "wait"
    /\ exit_code = "running"
    /\ last_run = runs[2].at

(* ------------------------------------------------------------------ *)
(* Claims about the configuration (SpecSched)                           *)
(* ------------------------------------------------------------------ *)

\* C21: when --interval is given with a value <= 0, zero as well as negative,
\* no run is started: no media-server query is made, no catalog is listed and
\* no delete call is issued.
C21_NonPositiveIntervalAborts ==
    (args.interval_given /\ args.interval <= 0) =>
        /\ runs = <<>>
        /\ ~movies_cache.loaded /\ ~series_cache.loaded
        /\ delete_calls = <<>>

(* ------------------------------------------------------------------ *)
(* Claims about transport failures and filters (SpecResolve)            *)
(* ------------------------------------------------------------------ *)

\* the record satisfies the watched predicate of the whitelisted-watch pass
RecordSaysWatched(record) ==
    \/ (record.LastPlayedDate # NoDate /\ record.LastPlayedDate > cutoff_date)
    \/ record.Played
    \/ record.PlayedPercentage > 75

\* the items that a whitelisted user's records, as the run received them, show
\* as watched
WatchedAsReceived ==
    { item.Id : item \in
        UNION { { x \in Range(emby_items[l.ItemId]) :
                    \E u \in WhitelistedUsers :
                        /\ UserItemsReturned(u, l)
                        /\ RecordSaysWatched(emby_user_data[<<u.Id, x.Id>>]) }
                : l \in ActiveLibrarySet } }

\* the item, as the global pass received it, passes every test of that pass
Eligible(item) ==
    /\ item.Id \notin WatchedAsReceived
    /\ ~Vetoed(item)
    /\ ~(item.DateCreated # NoDate /\ item.DateCreated > cutoff_date)
    /\ (item.DateLastPlayed = NoDate \/ item.DateLastPlayed < cutoff_date)

\* C22: when a media-server query of the resolution fails in transport, the
\* resolution still completes, and its result is what the answers that did
\* arrive determine, the failed query counting as an empty list: the exclusion
\* set holds the items the received records show as watched, the result holds
\* exactly the eligible items of the listings received, and every item of the
\* result carries the name of the library that lists it.
C22_FailedQueryCountsAsEmpty ==
    (pc = "correlate" /\ failed # {}) =>
        /\ watched_by_whitelisted = WatchedAsReceived
        /\ UnwatchedIds = { item.Id : item \in { x \in ItemsReceived : Eligible(x) } }
        /\ \A k \in 1..Len(unwatched_items) :
             \E l \in ActiveLibrarySet :
                /\ unwatched_items[k].LibraryName = l.Name
                /\ \E x \in Range(emby_items[l.ItemId]) : x.Id = unwatched_items[k].Id

\* C22 witness: the listing of the Movies library fails, the movie and the
\* series are both old and untouched, and the result holds the series alone.
C22_Witness ==
    /\ pc = "correlate"
    /\ failed = {Call("items", "L1", "")}
    /\ args.libraries = {}
    /\ emby_items["L1"][1].DateLastPlayed = NoDate
    /\ emby_items["L1"][1].DateCreated < cutoff_date
    /\ watched_by_whitelisted = {}
    /\ UnwatchedIds = {"s1"}

\* C24: with a non-empty library filter the active libraries are exactly those
\* whose name equals a filter name letter for letter; only they are queried,
\* every item of the result carries the name of one of them, and when none
\* matches the result is empty.  With an empty filter every library is active.
C24_FilterSelectsByExactName ==
    (pc = "correlate" /\ Call("libraries", "", "") \notin failed) =>
        LET exact == { l \in Range(emby_libraries) : l.Name \in args.libraries }
            active == IF args.libraries = {} THEN Range(emby_libraries) ELSE exact
        IN  /\ queried = { l.ItemId : l \in active }
            /\ \A k \in 1..Len(unwatched_items) :
                 unwatched_items[k].LibraryName \in { l.Name : l \in active }
            /\ (args.libraries # {} /\ exact = {}) => unwatched_items = <<>>

\* C24 witness: the filter names the Shows library; the movie and the series
\* are both old and untouched, only the Shows library is queried and the result
\* holds the series alone.
C24_Witness ==
    /\ pc = "correlate"
    /\ failed = {}
    /\ args.libraries = {"Shows"}
    /\ emby_items["L1"][1].DateLastPlayed = NoDate
    /\ emby_items["L1"][1].DateCreated < cutoff_date
    /\ watched_by_whitelisted = {}
    /\ queried = {"L2"}
    /\ UnwatchedIds = {"s1"}

\* C24 second witness: the filter spells the library's name in other letters,
\* so no library is active, none is queried and the result is empty.
C24_WitnessNoMatch ==
    /\ pc = "correlate"
    /\ failed = {}
    /\ args.libraries = {"shows"}
    /\ queried = {}
    /\ unwatched_items = <<>>

\* C26: an item created after the cutoff that passes every other test of the
\* global pass is in the result when --include-recent is given, and is not in
\* it when the flag is not given.
C26_IncludeRecentKeepsRecentItems ==
    (pc = "correlate" /\ failed = {}) =>
        \A item \in ItemsReceived :
            (/\ item.DateCreated # NoDate /\ item.DateCreated > cutoff_date
             /\ item.Id \notin watched_by_whitelisted
             /\ ~Vetoed(item)
             /\ (item.DateLastPlayed = NoDate \/ item.DateLastPlayed < cutoff_date))
            => (item.Id \in UnwatchedIds <=> args.include_recent)

\* C29: whatever per-user item queries and per-user episode queries of the
\* whitelisted users fail in transport, no item of an active library that a
\* whitelisted user's record on the server shows as watched is in the result.
C29_FailureNeverListsWatchedItem ==
    (pc = "correlate" /\ \A c \in failed : c.kind \in {"user_items", "user_episodes"}) =>
        \A l \in ActiveLibrarySet : \A u \in WhitelistedUsers :
            \A i \in 1..Len(emby_items[l.ItemId]) :
                RecordSaysWatched(emby_user_data[<<u.Id, emby_items[l.ItemId][i].Id>>])
                => emby_items[l.ItemId][i].Id \notin UnwatchedIds

(* ------------------------------------------------------------------ *)
(* Claims about the catalogs and the deletion phase (Spec)              *)
(* ------------------------------------------------------------------ *)

\* C23: in one run each catalog receives its list request at most once,
\* whether the first request succeeded or failed.
C23_OneListRequestPerRun ==
    list_requests.radarr <= 1 /\ list_requests.sonarr <= 1

\* a delete call is only made while the catalog's listing is cached
DeleteCallsReadTheCache ==
    /\ (pc = "delete_movies" /\ args.radarr /\ idx <= Len(movies)
        /\ movies[idx].Id # NoId) => movies_cache.loaded
    /\ (pc = "delete_shows" /\ args.sonarr /\ idx <= Len(shows)
        /\ shows[idx].Id # NoId) => series_cache.loaded

\* the prompts shown for this item
PromptsFor(emby_id) == { k \in 1..Len(prompts) : prompts[k].item = emby_id }

\* Confirmed: the mode is 'all', or the operator accepted the prompt
IsConfirmed(entry) == args.delete_mode = "all" \/ Accepted(entry.EmbyId)

\* Skipped: the operator was asked and declined, and no delete call was made
IsSkipped(entry) ==
    /\ ~IsConfirmed(entry)
    /\ \E k \in PromptsFor(entry.EmbyId) : prompts[k].answer = "n"
    /\ CallsFor(entry.EmbyId) = {}

\* Deleted: confirmed, and deemed deleted in a dry run or deleted by a call
IsDeleted(entry) ==
    /\ IsConfirmed(entry)
    /\ IF args.dry_run
       THEN CallsFor(entry.EmbyId) = {}
       ELSE \E k \in CallsFor(entry.EmbyId) : delete_calls[k].success

\* Failed: confirmed, and the delete call of a live run failed
IsFailed(entry) ==
    /\ IsConfirmed(entry)
    /\ ~args.dry_run
    /\ \E k \in CallsFor(entry.EmbyId) : ~delete_calls[k].success

\* the entry is in exactly one terminal state and was handled exactly once
HandledOnce(entry) ==
    /\ \/ (IsSkipped(entry) /\ ~IsDeleted(entry) /\ ~IsFailed(entry))
       \/ (~IsSkipped(entry) /\ IsDeleted(entry) /\ ~IsFailed(entry))
       \/ (~IsSkipped(entry) /\ ~IsDeleted(entry) /\ IsFailed(entry))
    /\ Cardinality(CallsFor(entry.EmbyId)) <= 1
    /\ Cardinality(PromptsFor(entry.EmbyId)) <= 1
    /\ CallsFor(entry.EmbyId) # {} => IsConfirmed(entry)

\* the loop has not come to the entry: no prompt and no call for it yet
NotYetHandled(entry) ==
    CallsFor(entry.EmbyId) = {} /\ PromptsFor(entry.EmbyId) = {}

\* the positions of the list the deletion loops have passed
Passed(list, at, later) ==
    IF pc = at THEN 1..(idx - 1)
    ELSE IF pc \in later THEN 1..Len(list)
    ELSE {}

\* C25: while a deletion phase runs that was not quit, and at its end, every
\* listed item with a delete handle that the loops have passed is in exactly
\* one of the terminal states Skipped, Deleted and Failed, with at most one
\* prompt and one delete call, the call only if it was confirmed; an item the
\* loops have not reached has neither; and at the end all items have been
\* passed and the tally counts the Deleted ones.
C25_EveryHandleEndsInOneTerminalState ==
    (pc \in {"delete_movies", "delete_shows", "finish"} /\ args.delete_mode # "none") =>
        LET ms == Actionable(movies, args.radarr)
            ss == Actionable(shows, args.sonarr)
            passed_m == { movies[k] : k \in Passed(movies, "delete_movies",
                                                   {"delete_shows", "finish"}) }
            passed_s == { shows[k] : k \in Passed(shows, "delete_shows", {"finish"}) }
        IN  /\ \A e \in Range(ms) :
                 IF e \in passed_m THEN HandledOnce(e) ELSE NotYetHandled(e)
            /\ \A e \in Range(ss) :
                 IF e \in passed_s THEN HandledOnce(e) ELSE NotYetHandled(e)
            /\ pc = "finish" =>
                 /\ deleted.movie_count = Cardinality({ e \in Range(ms) : IsDeleted(e) })
                 /\ deleted.show_count = Cardinality({ e \in Range(ss) : IsDeleted(e) })

\* C25 witness: an interactive live phase is over in which one movie was
\* declined, the delete call of another failed, and the show was deleted.
C25_Witness ==
    /\ pc = "finish"
    /\ args.delete_mode = "interactive"
    /\ ~args.dry_run
    /\ \E i, j \in 1..Len(movies) :
          /\ movies[i].Id # NoId /\ IsSkipped(movies[i])
          /\ movies[j].Id # NoId /\ IsFailed(movies[j])
    /\ \E k \in 1..Len(shows) : shows[k].Id # NoId /\ IsDeleted(shows[k])

\* C28: in a live run under delete mode 'all', no catalog entry is the subject
\* of more than one delete call: no two delete calls go to the same service
\* with the same id, also when two unwatched items were correlated to the same
\* catalog entry.
C28_OneDeleteCallPerCatalogId ==
    (args.delete_mode = "all" /\ ~args.dry_run) =>
        \A j, k \in 1..Len(delete_calls) :
            (/\ delete_calls[j].service = delete_calls[k].service
             /\ delete_calls[j].id = delete_calls[k].id)
            => j = k

\* a held cache changes in this step only by losing the entries with the id of
\* a delete call to this service that is issued in this step and succeeds
HeldCacheChangesByDeleteOnly(old, new, service) ==
    (old.loaded /\ new # old) =>
        /\ Len(delete_calls') = Len(delete_calls) + 1
        /\ LET call == delete_calls'[Len(delete_calls')]
           IN  /\ call.service = service
               /\ call.success
               /\ new = [loaded |-> TRUE,
                         entries |-> SelectSeq(old.entries, LAMBDA e : e.id # call.id)]

\* C32: a cache that a catalog gateway holds is changed by no step other than
\* a delete call that succeeds, which removes the entry with the id of the
\* call: a dry run, a failed call, an entry that is skipped or declined, and a
\* listing for a title lookup (whether or not a request would fail) leave it as
\* it is; and a cache that is filled holds the catalog as it was listed.
C32_HeldCacheChangesOnlyBySuccessfulDelete ==
    [][ /\ HeldCacheChangesByDeleteOnly(movies_cache, movies_cache', "radarr")
        /\ HeldCacheChangesByDeleteOnly(series_cache, series_cache', "sonarr")
        /\ (~movies_cache.loaded /\ movies_cache'.loaded)
             => movies_cache'.entries = radarr_movies
        /\ (~series_cache.loaded /\ series_cache'.loaded)
             => series_cache'.entries = sonarr_series
        /\ \A request_fails \in BOOLEAN :
             /\ movies_cache.loaded =>
                  CacheAfterGetAll(movies_cache, radarr_movies, request_fails) = movies_cache
             /\ series_cache.loaded =>
                  CacheAfterGetAll(series_cache, sonarr_series, request_fails) = series_cache
      ]_vars

\* C32 witness: of two delete calls to Radarr one failed and one succeeded;
\* the held cache still has the entry of the failed call and has lost the
\* entry of the successful one.
C32_Witness ==
    /\ movies_cache.loaded
    /\ \E j, k \in 1..Len(delete_calls) :
          /\ delete_calls[j].service = "radarr" /\ ~delete_calls[j].success
          /\ delete_calls[k].service = "radarr" /\ delete_calls[k].success
          /\ \E e \in Range(movies_cache.entries) : e.id = delete_calls[j].id
          /\ \A e \in Range(movies_cache.entries) : e.id # delete_calls[k].id
          /\ \E e \in Range(radarr_movies) : e.id = delete_calls[k].id

\* the names looked up: those of the model, and three more that are contained
\* in a title, contain several titles, or match nothing
LookupNames == ProbeTitles \cup { <<"B">>, <<"a", "b", "d">>, <<"e">> }

\* the positions of the catalog entries whose title equals the name, contains
\* it or is contained in it, letter case aside
MatchingPositions(catalog, name) ==
    { i \in 1..Len(catalog) : TitleMatches(catalog[i].title, name) }

\* the first catalog entry whose title matches the name in one of these ways
FirstMatching(catalog, name) ==
    catalog[CHOOSE i \in MatchingPositions(catalog, name) :
                \A j \in MatchingPositions(catalog, name) : i <= j]

\* the entries of the report have no handle exactly when no catalog title
\* matches their name, and when none equals it, the handle of the first match
HandlesOfMatching(list, catalog) ==
    \A k \in 1..Len(list) :
        /\ list[k].Id = NoId <=> MatchingPositions(catalog, list[k].Name) = {}
        /\ (MatchingPositions(catalog, list[k].Name) # {}
            /\ EqualTitled(catalog, list[k].Name) = {})
           => list[k].Id = FirstMatching(catalog, list[k].Name).id

\* the report has been built and the deletion loops have not moved yet
ReportJustBuilt == pc \in {"delete_movies", "finish"} /\ idx = 1

\* C33: find_movie_by_title / find_series_by_title returns no entry if and
\* only if no catalog title equals the name, contains it or is contained in it,
\* letter case aside; and when no title equals the name but some match by
\* containment, it returns the first of them in catalog order (checked for
\* every catalog the process starts with and every name looked up, and on the
\* report of a run whose lookups got the catalog).
C33_NoEntryIffNoMatchAndFirstContainmentWins ==
    /\ pc = "main" =>
         \A catalog \in {radarr_movies, sonarr_series} : \A name \in LookupNames :
            /\ FindByTitle(catalog, name) = NoEntry
                 <=> MatchingPositions(catalog, name) = {}
            /\ (MatchingPositions(catalog, name) # {} /\ EqualTitled(catalog, name) = {})
                 => FindByTitle(catalog, name) = FirstMatching(catalog, name)
    /\ (ReportJustBuilt /\ args.radarr /\ list_requests.radarr = 1 /\ movies_cache.loaded)
         => HandlesOfMatching(movies, radarr_movies)
    /\ (ReportJustBuilt /\ args.sonarr /\ list_requests.sonarr = 1 /\ series_cache.loaded)
         => HandlesOfMatching(shows, sonarr_series)

\* C33 witness: Radarr lists "B" and then "A"; neither equals the name "ab",
\* both are contained in it, and the report gives that movie the handle of "B";
\* the series matches no Sonarr title and has no handle.
C33_Witness ==
    /\ Len(radarr_movies) = 2
    /\ radarr_movies[1].title = <<"B">>
    /\ radarr_movies[2].title = <<"A">>
    /\ ReportJustBuilt
    /\ list_requests.radarr = 1
    /\ \E k \in 1..Len(movies) :
          movies[k].EmbyId = "m2" /\ movies[k].Id = radarr_movies[1].id
    /\ args.sonarr /\ list_requests.sonarr = 1
    /\ sonarr_series # <<>>
    /\ Len(shows) = 1 /\ shows[1].Id = NoId

(* ------------------------------------------------------------------ *)
(* Claims about the stop signal (SpecSched)                             *)
(* ------------------------------------------------------------------ *)

\* C30: wherever in the scheduler SIGTERM is delivered, no run begins once the
\* stop flag is set: every step that starts a run is taken with the flag clear.
C30_NoRunBeginsAfterStop ==
    [][ runs' # runs => ~stop_event ]_vars

\* the positions of the process inside process_unwatched_media
RunPositions ==
    {"resolve", "correlate", "delete_movies", "delete_shows", "finish", "except"}

\* C31: when SIGTERM arrives while a run is in progress, the run is not
\* interrupted: the process stays in the run, which can always take its next
\* step, until the run returns; under delete mode 'all' a run that raised
\* nothing reaches its deletion summary; no other run starts; and the process
\* leaves the loop and exits with code 0 only after the run has returned.
C31_StopDuringRunLetsTheRunFinish ==
    signal_at.pc \in RunPositions =>
        /\ Len(runs) = signal_at.runs
        /\ pc \in RunPositions \cup {"loop", "wait", "exited"}
        /\ pc \in RunPositions =>
             ENABLED (GetUnwatchedItems \/ Correlate \/ DeleteMovie \/ MoviesDone
                      \/ DeleteShow \/ ShowsDone \/ Finish)
        /\ pc \notin RunPositions =>
             /\ last_run # NoDate
             /\ last_run >= runs[signal_at.runs].at
             /\ (args.delete_mode = "all" /\ signal_at.runs \notin raised)
                  => signal_at.runs \in summaries
        /\ pc = "exited" => exit_code = "0"

\* C31 witness: SIGTERM arrived during the movie loop of a live run under
\* 'all'; the run went on to delete the show, printed its summary and returned,
\* and the process has exited with code 0 without another run.
C31_Witness ==
    /\ signal_at.pc = "delete_movies"
    /\ pc = "exited"
    /\ exit_code = "0"
    /\ args.delete_mode = "all"
    /\ Len(runs) = signal_at.runs
    /\ signal_at.runs \in summaries
    /\ \E k \in 1..Len(delete_calls) :
          delete_calls[k].service = "sonarr" /\ delete_calls[k].success

(* ------------------------------------------------------------------ *)
(* Claims about the minimum age (SpecMinAge)                            *)
(* ------------------------------------------------------------------ *)

\* the creation timestamp of the media item with this id
CreatedAt(emby_id) ==
    LET item == CHOOSE x \in UNION { Range(emby_items[l]) : l \in DOMAIN emby_items } :
                    x.Id = emby_id
    IN  item.DateCreated

\* C27: no delete call is ever issued for a media item created within the last
\* --min-age-days days, whatever the values of --days and --min-age-days.
C27_NoDeleteCallForYoungItem ==
    \A k \in 1..Len(delete_calls) :
        CreatedAt(delete_calls[k].item) <= clock - args.min_age_days * SecondsPerDay

(* ------------------------------------------------------------------ *)
(* Claims about recently added episodes (SpecRecent)                    *)
(* ------------------------------------------------------------------ *)

\* the series has an episode created after the cutoff of the report
HasRecentlyAddedEpisode(item) ==
    /\ item.Type = "Series"
    /\ \E k \in 1..Len(emby_episodes[item.Id]) :
          /\ emby_episodes[item.Id][k].DateCreated # NoDate
          /\ emby_episodes[item.Id][k].DateCreated > report_cutoff_date

\* the series is in the report
InReport(item) == \E k \in 1..Len(shows) : shows[k].EmbyId = item.Id

\* C34: in a run without transport failures, once the report is built: unless
\* --ignore-recent-episodes is given, a series of the unwatched set with an
\* episode created after the cutoff is not in the report and is neither
\* prompted for nor the subject of a delete call; when the flag is given,
\* every series of the unwatched set is in the report.
C34_RecentlyAddedEpisodeOmitsSeries ==
    (pc \in {"delete_movies", "delete_shows", "finish"} /\ failed = {}) =>
        \A item \in { x \in Range(unwatched_items) : x.Type = "Series" } :
            IF args.ignore_recent_episodes
            THEN InReport(item)
            ELSE HasRecentlyAddedEpisode(item) =>
                    /\ ~InReport(item)
                    /\ PromptsFor(item.Id) = {}
                    /\ CallsFor(item.Id) = {}

====
